---- MODULE Spec2Model ----
(***************************************************************************)
(* Bringin checkout: the in-memory session store (bringin-sessions, kept   *)
(* at the end of packages/core/src/actions.ts) and the payment             *)
(* verification handler handleVerifyStatus (unnamed/part_001).             *)
(*                                                                         *)
(* Dates are milliseconds since the epoch.  Every `await` of the handler   *)
(* is a point where other invocations, session creation, deletion, the     *)
(* cleanup sweep and the clock may interleave; the code between two awaits *)
(* runs as one step.                                                       *)
(*                                                                         *)
(* Spec       the handler over one checkout, every invocation overlapping  *)
(* StoreSpec  the store's exported functions called directly, two ids      *)
(* FrameSpec  the handler over a store holding two sessions                *)
(* AdapterSpec  checkInvoiceStatus (bringin-provider.ts) on its own        *)
(* AddressSpec  fetchLnUrlPayParams up to its request, on any address      *)
(* VerifyUrlSpec  getVerifyUrl on any response, callback and address       *)
(* InvoiceSpec  one call of createInvoiceFromLnAddress                     *)
(* CheckoutSpec  one call of confirmCheckout or createCheckout             *)
(* SerialSpec  the handler called by one caller, one call at a time        *)
(* PollLoopSpec  SerialSpec with the fairness of a running poll loop       *)
(* RecreateSpec  the handler over a checkout whose session is made again   *)
(***************************************************************************)
EXTENDS Integers, FiniteSets, Sequences, TLC

\* ---------------------------------------------------------------- bounds
\* handleVerifyStatus invocations made in a run; all of them may overlap
MaxCalls == 2
\* createSession calls made in a run
MaxCreates == 1
\* direct calls of the store's exported functions made in a run of StoreSpec
MaxStoreCalls == 3
\* handleVerifyStatus invocations made in a run of FrameSpec
MaxFrameCalls == 1
\* characters of a Lightning Address
MaxAddrLen == 4

\* ------------------------------------------------------- program constants
MockDelayMs == 12000
CleanupAgeMs == 3600000
DefaultExpiryMs == 900000

\* paidAt?: Date / lastCheckedAt?: Date left undefined
NoDate == -1
\* a Date object whose time value is NaN (new Date("not a date"))
InvalidDate == -2

Procs == 1..MaxCalls
\* checkout identifiers in use
Ids == {"c1"}
\* checkout identifiers in use when the store holds more than one session
StoreIds == {"c1", "c2"}
Statuses == {"pending", "paid", "expired"}

\* The instants the wall clock is observed at: 0, the two sides of the mock
\* delay, and an instant at which a session created at 0 is past its default
\* expiry and one that expired at 0 is old enough for the cleanup sweep.
Instants == { 0, MockDelayMs, MockDelayMs + 1, CleanupAgeMs + 1 }

\* expiresAt handed to createSession: the invoice's 15 minute default, or an
\* issuer-provided date (here 0, which no instant precedes).
ExpiryChoices(t) == { t + DefaultExpiryMs, 0 }

\* base-unit amounts of the invoices
SatsChoices == { 1000 }

\* paidAt strings the verify endpoint may send (data.settledAt || data.paidAt)
ProviderPaidAt ==
  { [kind |-> "absent", ms |-> 0],
    [kind |-> "empty", ms |-> 0],
    [kind |-> "iso", ms |-> 5000],
    [kind |-> "garbage", ms |-> 0] }

\* Result<BringinPaymentStatus> values checkInvoiceStatus can resolve to: a
\* failure, or data with a status and a paidAt string.  The handler reads
\* paidAt only when the status is paid, so it is varied only there.
AdapterResults ==
  { [error |-> TRUE, status |-> "pending", paidAt |-> [kind |-> "absent", ms |-> 0] ] }
  \cup
  { [error |-> FALSE, status |-> s, paidAt |-> [kind |-> "absent", ms |-> 0] ] :
      s \in {"pending", "expired"} }
  \cup
  { [error |-> FALSE, status |-> "paid", paidAt |-> ts] : ts \in ProviderPaidAt }

\* outcomes of client.checkouts.paymentReceived once it has been issued
NotifyOutcomes == { "resolved", "rejected" }

VARIABLES
  now,                 \* wall clock, ms
  sessions,            \* Map<string, BringinCheckoutSession>
  mockPaidTimestamps,  \* Map<string, Date>
  pc,                  \* per invocation: idle, poll, notify, done
  checkoutId,          \* per invocation: the argument
  session,             \* per invocation: the object read at line 42
  paidAt,              \* per invocation: the local const paidAt
  settled,             \* the promise the last step settled, if it settled one
  notified,            \* per id: paymentReceived requests issued
  creates,             \* createSession calls made
  ret,                 \* what the last direct call of a store function returned
  calls,               \* direct calls of store functions made
  response,            \* what the last verify request met on the wire
  polled,              \* what checkInvoiceStatus resolved to for it
  probe,               \* the last call of an address or URL helper, with its result
  invoice,             \* the createInvoiceFromLnAddress call in progress
  checkout             \* the confirmCheckout or createCheckout call in progress

vars == << now, sessions, mockPaidTimestamps, pc, checkoutId, session, paidAt,
           settled, notified, creates, ret, calls, response, polled,
           probe, invoice, checkout >>

\* ------------------------------------------------------------ data helpers
NoSession ==
  [ checkoutId |-> "", sats |-> 0, bolt11 |-> << >>, verifyUrl |-> << >>,
    createdAt |-> NoDate, expiresAt |-> NoDate,
    status |-> "pending", paidAt |-> NoDate, lastCheckedAt |-> NoDate ]

\* the invoice string and the verify URL of the invoice issued for a checkout
Bolt11Of(id) == << "lnbc", id >>
VerifyUrlOf(id) == << "verify", id >>

\* an optional string field that is not present
NoString == [ kind |-> "absent", ms |-> 0 ]

NoResult == [ kind |-> "none", status |-> "", paidAt |-> NoString, sats |-> 0, code |-> "" ]

failure(code) ==
  [ kind |-> "failure", status |-> "", paidAt |-> NoString, sats |-> 0, code |-> code ]

success(status, iso, sats) ==
  [ kind |-> "success", status |-> status, paidAt |-> iso, sats |-> sats, code |-> "" ]

\* a rejected promise: the async function threw
Raised ==
  [ kind |-> "raised", status |-> "", paidAt |-> NoString, sats |-> 0, code |-> "RangeError" ]

\* Date.prototype.toISOString: the ISO-8601 string of a valid time value; it
\* throws a RangeError for an Invalid Date.
ToISOStringThrows(d) == d = InvalidDate
toISOString(d) == [ kind |-> "iso", ms |-> d ]

\* new Date(str) for a truthy string: the time value of a parseable string,
\* NaN otherwise
NewDateFromString(ts) == IF ts.kind = "iso" THEN ts.ms ELSE InvalidDate

\* JavaScript truthiness of paidAtStr: undefined and "" are falsy
Truthy(ts) == ts.kind \in {"iso", "garbage"}

\* ------------------------------------------------------------ session store
\* variant of createSession: an existing entry is merged into, keeping its
\* status, paidAt and lastCheckedAt
M_createSession(ss, id, sats, expiresAt) ==
  [ i \in (DOMAIN ss) \cup {id} |->
      IF i = id
      THEN [ checkoutId |-> id, sats |-> sats, bolt11 |-> Bolt11Of(id),
             verifyUrl |-> VerifyUrlOf(id), createdAt |-> now,
             expiresAt |-> expiresAt,
             status |-> IF id \in DOMAIN ss THEN ss[id].status ELSE "pending",
             paidAt |-> IF id \in DOMAIN ss THEN ss[id].paidAt ELSE NoDate,
             lastCheckedAt |->
               IF id \in DOMAIN ss THEN ss[id].lastCheckedAt ELSE NoDate ]
      ELSE ss[i] ]

createSession(ss, id, sats, expiresAt) ==
  [ i \in (DOMAIN ss) \cup {id} |->
      IF i = id
      THEN [ checkoutId |-> id, sats |-> sats, bolt11 |-> Bolt11Of(id),
             verifyUrl |-> VerifyUrlOf(id), createdAt |-> now,
             expiresAt |-> expiresAt, status |-> "pending",
             paidAt |-> NoDate, lastCheckedAt |-> NoDate ]
      ELSE ss[i] ]

getSession(id) == IF id \in DOMAIN sessions THEN sessions[id] ELSE NoSession

\* variant of updateSessionStatus: every status check extends the expiry
M_updateSessionStatusExtends(ss, id, status, at) ==
  IF id \in DOMAIN ss
  THEN [ ss EXCEPT ![id] =
           [ @ EXCEPT !.status = status,
                      !.lastCheckedAt = now,
                      !.expiresAt = now + DefaultExpiryMs,
                      !.paidAt = IF at # NoDate THEN at ELSE @ ] ]
  ELSE ss

\* variant of updateSessionStatus: paidAt is assigned unconditionally, so a
\* call without the argument clears it
M_updateSessionStatus(ss, id, status, at) ==
  IF id \in DOMAIN ss
  THEN [ ss EXCEPT ![id] =
           [ @ EXCEPT !.status = status,
                      !.lastCheckedAt = now,
                      !.paidAt = at ] ]
  ELSE ss

updateSessionStatus(ss, id, status, at) ==
  IF id \in DOMAIN ss
  THEN [ ss EXCEPT ![id] =
           [ @ EXCEPT !.status = status,
                      !.lastCheckedAt = now,
                      !.paidAt = IF at # NoDate THEN at ELSE @ ] ]
  ELSE ss

\* the last direct call of a store function: the function, its checkoutId
\* and Date arguments, and the boolean or number it returned where it
\* returns one
ReturnOf(op, id, at, flag, count) ==
  [ op |-> op, id |-> id, at |-> at, flag |-> flag, count |-> count ]
NoReturn == ReturnOf("", "", NoDate, FALSE, 0)

\* ------------------------------------------------------ the verify adapter
\* What one GET of the verify URL can meet: fetch rejecting, an HTTP status,
\* a body that is not JSON, the JSON value null, or a JSON object with any
\* of the fields the adapter looks at.
HttpStatuses == { 200, 400, 404, 500, 503 }
\* a boolean field of the body: the value true, or anything else (absent,
\* false, a value of another type), which === true rejects alike
JsonFlags == { "absent", "true" }
JsonStatuses == { "absent", "paid", "expired", "pending", "settled" }

WireOutcome(net, http, body, se, pa, st, ex, pe, sa, pt) ==
  [ net |-> net, http |-> http, body |-> body, settled |-> se,
    paid |-> pa, status |-> st, expired |-> ex, pending |-> pe,
    settledAt |-> sa, paidAt |-> pt ]

NoResponse ==
  WireOutcome("none", 0, "invalid", "absent", "absent", "absent", "absent", "absent",
              NoString, NoString)

\* the outcomes, each written once: the body is looked at only for a 2xx
\* status and its fields only when it is an object
WireOutcomes ==
  { WireOutcome("rejects", 0, "invalid", "absent", "absent", "absent", "absent", "absent",
                NoString, NoString) }
  \cup
  { WireOutcome("responds", h, "invalid", "absent", "absent", "absent", "absent", "absent",
                NoString, NoString) : h \in HttpStatuses }
  \cup
  { WireOutcome("responds", 200, "null", "absent", "absent", "absent", "absent", "absent",
                NoString, NoString) }
  \cup
  { WireOutcome("responds", 200, "object", se, pa, st, ex, pe, sa, pt) :
      se \in JsonFlags, pa \in JsonFlags, st \in JsonStatuses,
      ex \in JsonFlags, pe \in JsonFlags,
      sa \in ProviderPaidAt, pt \in ProviderPaidAt }

\* Result<BringinPaymentStatus>, or the promise rejecting
PollResult(kind, code, status, paidAtStr) ==
  [ kind |-> kind, code |-> code, status |-> status, paidAt |-> paidAtStr ]
NoPolled == PollResult("none", "", "", NoString)

\* response.ok
HttpOk(h) == h >= 200 /\ h <= 299

\* variant of ParsedStatus: the expired test comes first
M_ParsedStatus(t) ==
  IF t.expired = "true" \/ t.status = "expired" THEN "expired"
  ELSE IF t.settled = "true" \/ t.paid = "true" \/ t.status = "paid" THEN "paid"
  ELSE "pending"

\* lines 361-369: the status read off the body, in the order paid, expired,
\* pending (also the initial value)
ParsedStatus(t) ==
  IF t.settled = "true" \/ t.paid = "true" \/ t.status = "paid" THEN "paid"
  ELSE IF t.expired = "true" \/ t.status = "expired" THEN "expired"
  ELSE IF t.pending = "true" \/ t.status = "pending" THEN "pending"
  ELSE "pending"

\* line 373: data.settledAt || data.paidAt
ParsedPaidAt(t) == IF Truthy(t.settledAt) THEN t.settledAt ELSE t.paidAt

\* variant of checkInvoiceStatus: no try/catch around the request, so a
\* rejected fetch or an unreadable body rejects the returned promise
M_checkInvoiceStatus(t) ==
  IF t.net = "rejects" THEN PollResult("raised", "TypeError", "", NoString)
  ELSE IF ~HttpOk(t.http)
  THEN IF t.http \in {404, 503}
       THEN PollResult("success", "", "pending", NoString)
       ELSE PollResult("failure", "verify_request_failed", "", NoString)
  ELSE IF t.body # "object" THEN PollResult("raised", "TypeError", "", NoString)
  ELSE PollResult("success", "", ParsedStatus(t), ParsedPaidAt(t))

\* lines 338-379
checkInvoiceStatus(t) ==
  IF t.net = "rejects" THEN PollResult("success", "", "pending", NoString)
  ELSE IF ~HttpOk(t.http)
  THEN IF t.http \in {404, 503}
       THEN PollResult("success", "", "pending", NoString)
       ELSE PollResult("failure", "verify_request_failed", "", NoString)
  ELSE IF t.body # "object" THEN PollResult("success", "", "pending", NoString)
  ELSE PollResult("success", "", ParsedStatus(t), ParsedPaidAt(t))

\* ------------------------------------------------ Lightning Address and URLs
\* A string is the sequence of its characters; of an address only the
\* separator and two other characters matter.
Chars == { "u", "d", "@" }
Addresses == UNION { [1..n -> Chars] : n \in 0..MaxAddrLen }

\* String.prototype.split(sep) for a one-character separator: the pieces
\* between the separators, empty pieces included
RECURSIVE Split(_, _)
Split(str, sep) ==
  IF \A i \in 1..Len(str) : str[i] # sep THEN << str >>
  ELSE LET k == CHOOSE i \in 1..Len(str) :
                  str[i] = sep /\ \A j \in 1..(i - 1) : str[j] # sep
       IN  << SubSeq(str, 1, k - 1) >> \o Split(SubSeq(str, k + 1, Len(str)), sep)

\* a URL: host, path segments, query parameters (name, value) in order
Url(host, path, query) == [ host |-> host, path |-> path, query |-> query ]
NoUrl == Url(<< >>, << >>, << >>)

\* Result<string> of resolveLightningAddress
Resolved(kind, code, url) == [ kind |-> kind, code |-> code, url |-> url ]

\* variant of resolveLightningAddress: the two parts are not tested for
\* emptiness
M_resolveLightningAddress(lnAddress) ==
  LET parts == Split(lnAddress, "@")
  IN  IF Len(parts) # 2 THEN Resolved("failure", "invalid_ln_address", NoUrl)
      ELSE Resolved("success", "",
                    Url(parts[2], << ".well-known", "lnurlp", parts[1] >>, << >>))

\* lines 89-107: user@domain becomes https://domain/.well-known/lnurlp/user
resolveLightningAddress(lnAddress) ==
  LET parts == Split(lnAddress, "@")
  IN  IF Len(parts) # 2 THEN Resolved("failure", "invalid_ln_address", NoUrl)
      ELSE IF parts[1] = << >> \/ parts[2] = << >>
      THEN Resolved("failure", "invalid_ln_address", NoUrl)
      ELSE Resolved("success", "",
                    Url(parts[2], << ".well-known", "lnurlp", parts[1] >>, << >>))

\* The LNURL-pay callback response as getVerifyUrl reads it: each of the four
\* optional fields is absent, the empty string, or a value.
FieldStates == { "absent", "empty", "value" }
CallbackResponse(verify, k1, paymentHash, checkingId) ==
  [ verify |-> verify, k1 |-> k1, paymentHash |-> paymentHash,
    checkingId |-> checkingId ]
NoCallbackResponse == CallbackResponse("absent", "absent", "absent", "absent")
CallbackResponses ==
  { CallbackResponse(v, k, h, c) : v \in FieldStates, k \in FieldStates,
                                   h \in FieldStates, c \in FieldStates }

\* the values of the fields when they have one
VerifyValue == Url(<< "verify.example" >>, << << "status" >> >>, << >>)
K1Value == "k1-token"
PaymentHashValue == "hash"
CheckingIdValue == "checking-id"

\* if (callbackResponse.field): absent and "" are both falsy
FieldTruthy(f) == f = "value"

\* Callback URLs a provider can announce. A path is its segments, a segment
\* its pieces of text, so that "callbacks" is << "callback", "s" >>.
CallbackPaths ==
  { << << "lnurlp" >>, << "callback" >> >>,
    << << "callback" >>, << "u" >> >>,
    << << "lnurlp" >>, << "pay" >> >>,
    << << "callback" >>, << "callback" >> >>,
    << << "callback", "s" >> >> }
CallbackQueries == { << >>, << << "k1", "old" >>, << "tag", "x" >> >> }
Callbacks ==
  { Url(<< "pay.example" >>, pth, << >>) : pth \in CallbackPaths }
  \cup { Url(<< "pay.example" >>, << << "lnurlp" >>, << "callback" >> >>, q) :
           q \in CallbackQueries }

\* String.prototype.replace('/callback', '/verify') on a pathname: the first
\* occurrence of the text is replaced, that is the start of the first
\* segment that begins with it
RECURSIVE ReplaceCallback(_)
ReplaceCallback(path) ==
  IF path = << >> THEN << >>
  ELSE IF Head(path)[1] = "callback"
  THEN << << "verify" >> \o Tail(Head(path)) >> \o Tail(path)
  ELSE << Head(path) >> \o ReplaceCallback(Tail(path))

\* URLSearchParams.set(name, value): the first parameter of that name takes
\* the value and the others of that name are removed; without one the
\* parameter is appended
RECURSIVE WithoutParam(_, _)
WithoutParam(query, name) ==
  IF query = << >> THEN << >>
  ELSE IF Head(query)[1] = name THEN WithoutParam(Tail(query), name)
  ELSE << Head(query) >> \o WithoutParam(Tail(query), name)

RECURSIVE SearchParamsSet(_, _, _)
SearchParamsSet(query, name, value) ==
  IF query = << >> THEN << << name, value >> >>
  ELSE IF Head(query)[1] = name
  THEN << << name, value >> >> \o WithoutParam(Tail(query), name)
  ELSE << Head(query) >> \o SearchParamsSet(Tail(query), name, value)

\* lines 248 and 255: https://api.<domain>/lnurlp/<handle>/verify?<name>=<value>
ProviderVerifyUrl(lnAddress, name, value) ==
  LET domain == Split(lnAddress, "@")[2]
      handle == Split(lnAddress, "@")[1]
  IN  Url(<< "api." >> \o domain, << "lnurlp", handle, "verify" >>,
          << << name, value >> >>)

\* variant of getVerifyUrl: the checking id is looked at before the payment
\* hash
M_getVerifyUrl(callbackResponse, callback, lnAddress) ==
  IF FieldTruthy(callbackResponse.verify) THEN VerifyValue
  ELSE IF FieldTruthy(callbackResponse.k1)
  THEN Url(callback.host, ReplaceCallback(callback.path),
           SearchParamsSet(callback.query, "k1", K1Value))
  ELSE IF FieldTruthy(callbackResponse.checkingId)
  THEN ProviderVerifyUrl(lnAddress, "checkingId", CheckingIdValue)
  ELSE IF FieldTruthy(callbackResponse.paymentHash)
  THEN ProviderVerifyUrl(lnAddress, "paymentHash", PaymentHashValue)
  ELSE Url(callback.host, ReplaceCallback(callback.path), callback.query)

\* lines 228-262
getVerifyUrl(callbackResponse, callback, lnAddress) ==
  IF FieldTruthy(callbackResponse.verify) THEN VerifyValue
  ELSE IF FieldTruthy(callbackResponse.k1)
  THEN Url(callback.host, ReplaceCallback(callback.path),
           SearchParamsSet(callback.query, "k1", K1Value))
  ELSE IF FieldTruthy(callbackResponse.paymentHash)
  THEN ProviderVerifyUrl(lnAddress, "paymentHash", PaymentHashValue)
  ELSE IF FieldTruthy(callbackResponse.checkingId)
  THEN ProviderVerifyUrl(lnAddress, "checkingId", CheckingIdValue)
  ELSE Url(callback.host, ReplaceCallback(callback.path), callback.query)

\* a call of a helper: the function, its arguments, the URL it requested or
\* built (NoUrl if none) and its Result, if it returns one
Probe(fn, address, callbackResponse, callback, url, result) ==
  [ fn |-> fn, address |-> address, response |-> callbackResponse,
    callback |-> callback, url |-> url, result |-> result ]
NoProbe ==
  Probe("", << >>, NoCallbackResponse, NoUrl, NoUrl, Resolved("none", "", NoUrl))

\* ------------------------------------------------------ invoice creation
\* line 320: the expiry given to every invoice
InvoiceExpiryMs == 900000

\* EUR amounts, counted in ten-thousandths of a euro: -1 EUR, 0, 0.0004 EUR,
\* 0.0005 EUR and 1 EUR
EurAmounts == { -10000, 0, 4, 5, 10000 }

\* lines 71-75: Math.round((eur / 100000) * 100000000), halves rounded up
eurToSats(eurAmount) == (eurAmount + 5) \div 10
\* lines 80-82
satsToMsats(sats) == sats * 1000

\* the addresses handed to createInvoiceFromLnAddress: none, a resolvable
\* one, one without separator, one without user
InvoiceAddresses ==
  { << >>, << "u", "@", "d" >>, << "u", "d" >>, << "@", "d" >> }

\* What the discovery request meets: fetch or json() throws, a non-2xx
\* answer, a body with another tag, without callback or metadata, with
\* non-numeric bounds, or LNURL-pay parameters. The callback of the
\* parameters is any non-empty string, a URL or not.
ParamsAnswer(kind, callback, callbackIsUrl, minSendable, maxSendable) ==
  [ kind |-> kind, callback |-> callback, callbackIsUrl |-> callbackIsUrl,
    minSendable |-> minSendable, maxSendable |-> maxSendable ]
NoParams == ParamsAnswer("none", NoUrl, FALSE, 0, 0)
PayCallback == Url(<< "pay.example" >>, << << "lnurlp" >>, << "callback" >> >>, << >>)
SendableRanges == { << 1000, 1000000000 >>, << 2000000, 1000000000 >>, << 1000, 500000 >> }
ParamsAnswers ==
  { ParamsAnswer(k, NoUrl, FALSE, 0, 0) :
      k \in { "throws", "not_ok", "wrong_tag", "missing_field", "not_numbers" } }
  \cup { ParamsAnswer("ok", PayCallback, u, r[1], r[2]) :
           u \in BOOLEAN, r \in SendableRanges }

\* lines 124-160: the failure fetchLnUrlPayParams makes of an answer
ParamsFailureCode(a) ==
  CASE a.kind = "throws" -> "lnurl_fetch_error"
    [] a.kind = "not_ok" -> "lnurl_fetch_failed"
    [] OTHER -> "invalid_lnurl_response"

\* What the invoice request meets: fetch or json() throws, a non-2xx answer,
\* a body with status ERROR or with a reason, a body without pr, or an
\* invoice with its optional fields.
InvoiceAnswer(kind, callbackResponse) == [ kind |-> kind, response |-> callbackResponse ]
NoInvoiceAnswer == InvoiceAnswer("none", NoCallbackResponse)
InvoiceAnswers ==
  { InvoiceAnswer(k, NoCallbackResponse) :
      k \in { "throws", "not_ok", "error_status", "reason", "no_pr" } }
  \cup { InvoiceAnswer("ok", r) :
           r \in { NoCallbackResponse,
                   CallbackResponse("value", "value", "absent", "absent"),
                   CallbackResponse("absent", "value", "absent", "empty"),
                   CallbackResponse("absent", "absent", "value", "value") } }

\* lines 191-221: the failure requestInvoice makes of an answer
InvoiceFailureCode(a) ==
  CASE a.kind = "not_ok" -> "invoice_request_failed"
    [] a.kind = "no_pr" -> "invalid_invoice_response"
    [] OTHER -> "invoice_request_error"

\* data.pr
PrValue == "lnbc-pr"

\* BringinInvoice, lines 322-329
InvoiceData(bolt11, verifyUrl, expiresAt, sats, msats, paymentHash) ==
  [ bolt11 |-> bolt11, verifyUrl |-> verifyUrl, expiresAt |-> expiresAt,
    sats |-> sats, msats |-> msats, paymentHash |-> paymentHash ]
NoInvoiceData == InvoiceData("", NoUrl, NoString, 0, 0, "absent")

\* Result<BringinInvoice>
InvoiceResult(kind, code, data) == [ kind |-> kind, code |-> code, data |-> data ]
NoInvoiceResult == InvoiceResult("none", "", NoInvoiceData)

\* a network request: the step that issued it and its URL
Request(step, url) == [ step |-> step, url |-> url ]

\* The call of createInvoiceFromLnAddress: where it stands, its arguments,
\* its locals, the requests it has issued and what it returned.
InvoiceCall(at, eurAmount, lnAddress, sats, msats, params, answer, requests, result) ==
  [ pc |-> at, eurAmount |-> eurAmount, lnAddress |-> lnAddress, sats |-> sats,
    msats |-> msats, params |-> params, answer |-> answer,
    requests |-> requests, result |-> result ]
NoInvoiceCall ==
  InvoiceCall("idle", 0, << >>, 0, 0, NoParams, NoInvoiceAnswer, << >>, NoInvoiceResult)

\* ------------------------------------------------------------- checkouts
\* What confirmCheckout (a Promise<Checkout>) and createCheckout (a Result)
\* end with: the checkout, a failure with its code, or a thrown error.
CheckoutResult(kind, code) == [ kind |-> kind, code |-> code ]
NoCheckoutResult == CheckoutResult("none", "")

\* invoiceAmountSats of the checkout the API returns; 0 stands for a missing
\* amount, for which 1000 is taken (lines 95 and 232)
InvoiceAmounts == { 0, 1000 }
SatsAmount(invoiceAmountSats) == IF invoiceAmountSats = 0 THEN 1000 ELSE invoiceAmountSats

\* what createInvoiceFromLnAddress resolves to for a checkout of that
\* amount, at instant t: a failure of one of its steps, or an invoice
InvoiceOutcomes(sats, t) ==
  { InvoiceResult("failure", c, NoInvoiceData) :
      c \in { "lnurl_fetch_failed", "invoice_request_error" } }
  \cup { InvoiceResult("success", "",
           InvoiceData(PrValue, VerifyValue, toISOString(t + InvoiceExpiryMs),
                       sats, satsToMsats(sats), "absent")) }

\* The call of confirmCheckout or createCheckout in Bringin mode: where it
\* stands, which function, the checkout identifier, whether the API has
\* confirmed the checkout, the amount taken for it, the invoice result,
\* whether the invoice has been registered, the expiry date computed for
\* it, and what the call ended with.
CheckoutCall(at, fn, id, confirmed, satsAmount, invoiceResult, registered, expiryDate, result) ==
  [ pc |-> at, fn |-> fn, id |-> id, confirmed |-> confirmed,
    satsAmount |-> satsAmount, invoice |-> invoiceResult,
    registered |-> registered, expiryDate |-> expiryDate, result |-> result ]
NoCheckoutCall ==
  CheckoutCall("idle", "", "", FALSE, 0, NoInvoiceResult, FALSE, NoDate,
               NoCheckoutResult)

\* new Map()
EmptyMap == [ i \in {} |-> 0 ]

MapRemove(m, ks) == [ i \in (DOMAIN m) \ ks |-> m[i] ]

\* variant of isSessionExpired: a session counts as expired at expiresAt itself
M_isSessionExpired(s) == now >= s.expiresAt

isSessionExpired(s) == now > s.expiresAt

\* variant of shouldMockPaid: the delay counts as elapsed at 12,000 ms itself
M_shouldMockPaid(id, createdAt) ==
  \/ id \in DOMAIN mockPaidTimestamps
  \/ now - createdAt >= MockDelayMs

shouldMockPaid(id, createdAt) ==
  \/ id \in DOMAIN mockPaidTimestamps
  \/ now - createdAt > MockDelayMs

\* variant of MarkersAfterShouldMockPaid: the first true answer records
\* nothing
M_MarkersAfterShouldMockPaid(id, createdAt) == mockPaidTimestamps

MarkersAfterShouldMockPaid(id, createdAt) ==
  IF id \in DOMAIN mockPaidTimestamps THEN mockPaidTimestamps
  ELSE IF now - createdAt > MockDelayMs
       THEN [ i \in (DOMAIN mockPaidTimestamps) \cup {id} |->
                IF i = id THEN now ELSE mockPaidTimestamps[i] ]
       ELSE mockPaidTimestamps

\* variant of CleanupVictims: a session that expired exactly one hour ago is
\* swept too
M_CleanupVictims ==
  { i \in DOMAIN sessions :
      /\ sessions[i].status = "expired"
      /\ now - sessions[i].expiresAt >= CleanupAgeMs }

CleanupVictims ==
  { i \in DOMAIN sessions :
      /\ sessions[i].status = "expired"
      /\ now - sessions[i].expiresAt > CleanupAgeMs }

\* ------------------------------------------------------------------ Init
Init ==
  /\ now = 0
  /\ sessions = EmptyMap
  /\ mockPaidTimestamps = EmptyMap
  /\ pc = [ p \in Procs |-> "idle" ]
  /\ checkoutId = [ p \in Procs |-> "" ]
  /\ session = [ p \in Procs |-> NoSession ]
  /\ paidAt = [ p \in Procs |-> NoDate ]
  /\ settled = [ id |-> "", result |-> NoResult ]
  /\ notified = [ i \in StoreIds |-> 0 ]
  /\ creates = 0
  /\ ret = NoReturn
  /\ calls = 0
  /\ response = NoResponse
  /\ polled = NoPolled
  /\ probe = NoProbe
  /\ invoice = NoInvoiceCall
  /\ checkout = NoCheckoutCall

\* no promise settles in this step
NothingSettles == settled' = [ id |-> "", result |-> NoResult ]

handlerVars == << pc, checkoutId, session, paidAt, notified >>

storeCallVars == << ret, calls >>

adapterVars == << response, polled >>

flowVars == << probe, invoice, checkout >>

\* ------------------------------------------------------- environment steps
Tick ==
  /\ \E t \in Instants : t > now /\ now' = t
  /\ UNCHANGED << sessions, mockPaidTimestamps, creates >>
  /\ NothingSettles
  /\ UNCHANGED handlerVars
  /\ UNCHANGED storeCallVars
  /\ UNCHANGED adapterVars
  /\ UNCHANGED flowVars

CreateSession ==
  /\ creates < MaxCreates
  /\ \E id \in Ids, sats \in SatsChoices :
       \E e \in ExpiryChoices(now) :
         sessions' = createSession(sessions, id, sats, e)
  /\ creates' = creates + 1
  /\ UNCHANGED << now, mockPaidTimestamps >>
  /\ NothingSettles
  /\ UNCHANGED handlerVars
  /\ UNCHANGED storeCallVars
  /\ UNCHANGED adapterVars
  /\ UNCHANGED flowVars

DeleteSession ==
  /\ \E id \in Ids :
       /\ sessions' = MapRemove(sessions, {id})
       /\ mockPaidTimestamps' = MapRemove(mockPaidTimestamps, {id})
  /\ UNCHANGED << now, creates >>
  /\ NothingSettles
  /\ UNCHANGED handlerVars
  /\ UNCHANGED storeCallVars
  /\ UNCHANGED adapterVars
  /\ UNCHANGED flowVars

ClearAllSessions ==
  /\ sessions' = EmptyMap
  /\ mockPaidTimestamps' = EmptyMap
  /\ UNCHANGED << now, creates >>
  /\ NothingSettles
  /\ UNCHANGED handlerVars
  /\ UNCHANGED storeCallVars
  /\ UNCHANGED adapterVars
  /\ UNCHANGED flowVars

CleanupExpiredSessions ==
  /\ sessions' = MapRemove(sessions, CleanupVictims)
  /\ mockPaidTimestamps' = MapRemove(mockPaidTimestamps, CleanupVictims)
  /\ UNCHANGED << now, creates >>
  /\ NothingSettles
  /\ UNCHANGED handlerVars
  /\ UNCHANGED storeCallVars
  /\ UNCHANGED adapterVars
  /\ UNCHANGED flowVars

\* ------------------------------------------------ handleVerifyStatus steps
\* The handler reads the session object once, at line 42.  Only status,
\* paidAt and lastCheckedAt of that object are ever mutated, so the fields
\* the handler reads from it after an await (createdAt, sats) are those of
\* session[p], also when the map entry has been replaced or deleted since.

\* the promise of invocation p for identifier id settles with r; the frame
\* and its locals are gone
Settle(p, id, r) ==
  /\ pc' = [ pc EXCEPT ![p] = "done" ]
  /\ settled' = [ id |-> id, result |-> r ]
  /\ checkoutId' = [ checkoutId EXCEPT ![p] = "" ]
  /\ session' = [ session EXCEPT ![p] = NoSession ]
  /\ paidAt' = [ paidAt EXCEPT ![p] = NoDate ]

\* lines 97-101 and 134-138: build the paid result from the local paidAt
PaidResult(d, sats) ==
  IF ToISOStringThrows(d) THEN Raised ELSE success("paid", toISOString(d), sats)

\* lines 52-56: session.paidAt?.toISOString()
CachedPaidResult(s) ==
  IF s.paidAt = NoDate THEN success("paid", NoString, s.sats)
  ELSE PaidResult(s.paidAt, s.sats)

\* variant of InvokeNotFound: an unknown identifier is reported as pending
M_InvokeNotFound(p, id) ==
  /\ Settle(p, id, success("pending", NoString, 0))
  /\ UNCHANGED << sessions, mockPaidTimestamps, notified >>

\* lines 43-48
InvokeNotFound(p, id) ==
  /\ Settle(p, id, failure("session_not_found"))
  /\ UNCHANGED << sessions, mockPaidTimestamps, notified >>

\* variant of InvokeCached: the paid session is notified again
M_InvokeCached(p, id) ==
  /\ Settle(p, id, CachedPaidResult(getSession(id)))
  /\ notified' = [ notified EXCEPT ![id] = @ + 1 ]
  /\ UNCHANGED << sessions, mockPaidTimestamps >>

\* lines 51-57
InvokeCached(p, id) ==
  /\ Settle(p, id, CachedPaidResult(getSession(id)))
  /\ UNCHANGED << sessions, mockPaidTimestamps, notified >>

\* lines 60-65
InvokeExpired(p, id) ==
  /\ sessions' = updateSessionStatus(sessions, id, "expired", NoDate)
  /\ Settle(p, id, success("expired", NoString, 0))
  /\ UNCHANGED << mockPaidTimestamps, notified >>

\* line 68: the verify request is issued and the handler suspends
InvokePoll(p, id) ==
  /\ pc' = [ pc EXCEPT ![p] = "poll" ]
  /\ checkoutId' = [ checkoutId EXCEPT ![p] = id ]
  /\ session' = [ session EXCEPT ![p] = getSession(id) ]
  /\ NothingSettles
  /\ UNCHANGED << paidAt, sessions, mockPaidTimestamps, notified >>

\* lines 38-68: from the call to the first await.  Invocations are
\* interchangeable, so they are started in the order of their numbers.
Invoke(p, id) ==
  /\ pc[p] = "idle"
  /\ \A q \in Procs : q < p => pc[q] # "idle"
  /\ IF id \notin DOMAIN sessions THEN InvokeNotFound(p, id)
     ELSE IF getSession(id).status = "paid" THEN InvokeCached(p, id)
     ELSE IF isSessionExpired(getSession(id)) THEN InvokeExpired(p, id)
     ELSE InvokePoll(p, id)
  /\ UNCHANGED << now, creates >>
  /\ UNCHANGED storeCallVars
  /\ UNCHANGED adapterVars
  /\ UNCHANGED flowVars

\* variant of MarkPaidAndNotify: the stored status is read again after the
\* await and a session already paid is neither rewritten nor notified again
M_MarkPaidAndNotify(p, d, clientThrows) ==
  IF getSession(checkoutId[p]).status = "paid"
  THEN /\ Settle(p, checkoutId[p], CachedPaidResult(getSession(checkoutId[p])))
       /\ UNCHANGED << sessions, notified >>
  ELSE /\ sessions' = updateSessionStatus(sessions, checkoutId[p], "paid", d)
       /\ IF clientThrows
          THEN /\ Settle(p, checkoutId[p], PaidResult(d, session[p].sats))
               /\ UNCHANGED notified
          ELSE /\ pc' = [ pc EXCEPT ![p] = "notify" ]
               /\ paidAt' = [ paidAt EXCEPT ![p] = d ]
               /\ notified' = [ notified EXCEPT ![checkoutId[p]] = @ + 1 ]
               /\ NothingSettles
               /\ UNCHANGED << session, checkoutId >>

\* lines 77-92 and 113-129: mark paid locally, then try to notify.  The
\* client constructor may throw (caught at line 93 / 130), in which case no
\* request is issued and the handler returns in the same turn.
MarkPaidAndNotify(p, d, clientThrows) ==
  /\ sessions' = updateSessionStatus(sessions, checkoutId[p], "paid", d)
  /\ IF clientThrows
     THEN /\ Settle(p, checkoutId[p], PaidResult(d, session[p].sats))
          /\ UNCHANGED notified
     ELSE /\ pc' = [ pc EXCEPT ![p] = "notify" ]
          /\ paidAt' = [ paidAt EXCEPT ![p] = d ]
          /\ notified' = [ notified EXCEPT ![checkoutId[p]] = @ + 1 ]
          /\ NothingSettles
          /\ UNCHANGED << session, checkoutId >>

\* lines 104-107 and 148-151
StillPending(p) ==
  /\ Settle(p, checkoutId[p], success("pending", NoString, 0))
  /\ UNCHANGED << sessions, notified >>

\* lines 71-108: the poll failed outright or returned pending
PollInconclusive(p, clientThrows) ==
  /\ mockPaidTimestamps' =
       MarkersAfterShouldMockPaid(checkoutId[p], session[p].createdAt)
  /\ IF shouldMockPaid(checkoutId[p], session[p].createdAt)
     THEN MarkPaidAndNotify(p, now, clientThrows)
     ELSE StillPending(p)

\* line 115
PaidAtOf(r) == IF Truthy(r.paidAt) THEN NewDateFromString(r.paidAt) ELSE now

\* lines 113-139: the poll returned paid
PollPaid(p, r, clientThrows) ==
  /\ MarkPaidAndNotify(p, PaidAtOf(r), clientThrows)
  /\ UNCHANGED mockPaidTimestamps

\* variant of PollExpired: expired is returned to the caller but not stored
M_PollExpired(p) ==
  /\ Settle(p, checkoutId[p], success("expired", NoString, 0))
  /\ UNCHANGED << sessions, mockPaidTimestamps, notified >>

\* lines 141-146: the poll returned expired
PollExpired(p) ==
  /\ sessions' = updateSessionStatus(sessions, checkoutId[p], "expired", NoDate)
  /\ Settle(p, checkoutId[p], success("expired", NoString, 0))
  /\ UNCHANGED << mockPaidTimestamps, notified >>

\* variant of PollReturn: a hard failure of the poll is handed to the caller
\* instead of being treated like pending
M_PollReturn(p, r, clientThrows) ==
  /\ pc[p] = "poll"
  /\ IF r.error
     THEN /\ Settle(p, checkoutId[p], failure("verify_request_failed"))
          /\ UNCHANGED << sessions, mockPaidTimestamps, notified >>
     ELSE IF r.status = "pending" THEN PollInconclusive(p, clientThrows)
     ELSE IF r.status = "paid" THEN PollPaid(p, r, clientThrows)
     ELSE IF r.status = "expired" THEN PollExpired(p)
     ELSE StillPending(p) /\ UNCHANGED mockPaidTimestamps
  /\ UNCHANGED << now, creates >>
  /\ UNCHANGED storeCallVars
  /\ UNCHANGED adapterVars
  /\ UNCHANGED flowVars

\* lines 68-151: checkInvoiceStatus resolved with r
PollReturn(p, r, clientThrows) ==
  /\ pc[p] = "poll"
  /\ IF r.error \/ r.status = "pending" THEN PollInconclusive(p, clientThrows)
     ELSE IF r.status = "paid" THEN PollPaid(p, r, clientThrows)
     ELSE IF r.status = "expired" THEN PollExpired(p)
     ELSE StillPending(p) /\ UNCHANGED mockPaidTimestamps
  /\ UNCHANGED << now, creates >>
  /\ UNCHANGED storeCallVars
  /\ UNCHANGED adapterVars
  /\ UNCHANGED flowVars

\* lines 84-101 and 121-138: paymentReceived settled (a rejection is caught
\* and logged), then the paid result is built
NotifyReturn(p, outcome) ==
  /\ pc[p] = "notify"
  /\ outcome \in NotifyOutcomes
  /\ Settle(p, checkoutId[p], PaidResult(paidAt[p], session[p].sats))
  /\ UNCHANGED << now, sessions, mockPaidTimestamps, notified, creates >>
  /\ UNCHANGED storeCallVars
  /\ UNCHANGED adapterVars
  /\ UNCHANGED flowVars

\* any step of some handleVerifyStatus invocation
CheckStatusStep ==
  \/ \E p \in Procs, id \in Ids : Invoke(p, id)
  \/ \E p \in Procs, r \in AdapterResults, c \in BOOLEAN : PollReturn(p, r, c)
  \/ \E p \in Procs, o \in NotifyOutcomes : NotifyReturn(p, o)

Next ==
  \/ Tick
  \/ CreateSession
  \/ DeleteSession
  \/ ClearAllSessions
  \/ CleanupExpiredSessions
  \/ \E p \in Procs, id \in Ids : Invoke(p, id)
  \/ \E p \in Procs, r \in AdapterResults, c \in BOOLEAN : PollReturn(p, r, c)
  \/ \E p \in Procs, o \in NotifyOutcomes : NotifyReturn(p, o)

Spec == Init /\ [][Next]_vars

\* ------------------------------------------------- one caller, one session
\* SerialSpec: a session exists from the start and is neither deleted nor
\* created again; the invocations of handleVerifyStatus for it are made one
\* after the other, each once the previous one has returned.
SerialInit ==
  /\ now = 0
  /\ \E e \in ExpiryChoices(0), sats \in SatsChoices :
       sessions = createSession(EmptyMap, "c1", sats, e)
  /\ mockPaidTimestamps = EmptyMap
  /\ pc = [ p \in Procs |-> "idle" ]
  /\ checkoutId = [ p \in Procs |-> "" ]
  /\ session = [ p \in Procs |-> NoSession ]
  /\ paidAt = [ p \in Procs |-> NoDate ]
  /\ settled = [ id |-> "", result |-> NoResult ]
  /\ notified = [ i \in StoreIds |-> 0 ]
  /\ creates = 0
  /\ ret = NoReturn
  /\ calls = 0
  /\ response = NoResponse
  /\ polled = NoPolled
  /\ probe = NoProbe
  /\ invoice = NoInvoiceCall
  /\ checkout = NoCheckoutCall

\* no invocation is between its call and its return
NoneInProgress == \A q \in Procs : pc[q] \in { "idle", "done" }

SerialInvoke(p, id) ==
  /\ NoneInProgress
  /\ Invoke(p, id)

SerialNext ==
  \/ Tick
  \/ \E p \in Procs, id \in Ids : SerialInvoke(p, id)
  \/ \E p \in Procs, r \in AdapterResults, c \in BOOLEAN : PollReturn(p, r, c)
  \/ \E p \in Procs, o \in NotifyOutcomes : NotifyReturn(p, o)

SerialSpec == SerialInit /\ [][SerialNext]_vars

\* PollLoopSpec: the same caller as a poll loop that runs: the clock
\* advances as long as it can, the caller makes each of its invocations once
\* the previous one has returned, and every request that was issued (the
\* verify request, the notification) is eventually answered, so that every
\* invocation returns.
PollLoopSpec ==
  /\ SerialSpec
  /\ WF_vars(Tick)
  /\ \A p \in Procs :
       /\ WF_vars(\E id \in Ids : SerialInvoke(p, id))
       /\ WF_vars(\E r \in AdapterResults, c \in BOOLEAN : PollReturn(p, r, c))
       /\ WF_vars(\E o \in NotifyOutcomes : NotifyReturn(p, o))

\* ------------------------------------------------- a checkout created again
\* RecreateSpec: no session is deleted; after the creations of Spec one more
\* createSession is made, for an identifier that has a session already (a
\* checkout confirmed again), and the invocations go on.
CreateAgain ==
  /\ creates = MaxCreates
  /\ \E id \in Ids, sats \in SatsChoices :
       /\ id \in DOMAIN sessions
       /\ \E e \in ExpiryChoices(now) :
            sessions' = createSession(sessions, id, sats, e)
  /\ creates' = creates + 1
  /\ UNCHANGED << now, mockPaidTimestamps >>
  /\ NothingSettles
  /\ UNCHANGED handlerVars
  /\ UNCHANGED storeCallVars
  /\ UNCHANGED adapterVars
  /\ UNCHANGED flowVars

RecreateNext ==
  \/ Tick
  \/ CreateSession
  \/ CreateAgain
  \/ \E p \in Procs, id \in Ids : Invoke(p, id)
  \/ \E p \in Procs, r \in AdapterResults, c \in BOOLEAN : PollReturn(p, r, c)
  \/ \E p \in Procs, o \in NotifyOutcomes : NotifyReturn(p, o)

RecreateSpec == Init /\ [][RecreateNext]_vars

\* ------------------------------------------- the store's exported functions
\* StoreSpec: the functions of the session store called directly, in any
\* order and with any arguments, as a test or another module of the package
\* may call them; no handleVerifyStatus invocation is in progress.

\* the instants the clock is observed at: the two sides of the mock delay,
\* and half an hour, exactly one hour and more than one hour after 0
StoreInstants ==
  { 0, MockDelayMs, MockDelayMs + 1,
    CleanupAgeMs \div 2, CleanupAgeMs, CleanupAgeMs + 1 }

\* the optional paidAt argument of updateSessionStatus: omitted, or a Date
PaidAtArgs == { NoDate, 5000 }

\* the createdAt argument of shouldMockPaid: any Date not in the future
CreatedAtArgs == { c \in StoreInstants : c <= now }

handlerFrame == << pc, checkoutId, session, paidAt, settled, notified, creates >>

StoreTick ==
  /\ \E t \in StoreInstants : t > now /\ now' = t
  /\ UNCHANGED << sessions, mockPaidTimestamps, ret, calls >>
  /\ UNCHANGED handlerFrame
  /\ UNCHANGED adapterVars
  /\ UNCHANGED flowVars

\* a direct call is made and returns
StoreCall(r) ==
  /\ calls < MaxStoreCalls
  /\ calls' = calls + 1
  /\ ret' = r
  /\ UNCHANGED now
  /\ UNCHANGED handlerFrame
  /\ UNCHANGED adapterVars
  /\ UNCHANGED flowVars

CallCreateSession(id, sats, expiresAt) ==
  /\ sessions' = createSession(sessions, id, sats, expiresAt)
  /\ UNCHANGED mockPaidTimestamps
  /\ StoreCall(ReturnOf("createSession", id, expiresAt, FALSE, 0))

CallUpdateSessionStatus(id, status, at) ==
  /\ sessions' = updateSessionStatus(sessions, id, status, at)
  /\ UNCHANGED mockPaidTimestamps
  /\ StoreCall(ReturnOf("updateSessionStatus", id, at, FALSE, 0))

\* variant of CallDeleteSession: the session goes, its marker stays
M_CallDeleteSession(id) ==
  /\ sessions' = MapRemove(sessions, {id})
  /\ UNCHANGED mockPaidTimestamps
  /\ StoreCall(ReturnOf("deleteSession", id, NoDate, FALSE, 0))

CallDeleteSession(id) ==
  /\ sessions' = MapRemove(sessions, {id})
  /\ mockPaidTimestamps' = MapRemove(mockPaidTimestamps, {id})
  /\ StoreCall(ReturnOf("deleteSession", id, NoDate, FALSE, 0))

CallClearAllSessions ==
  /\ sessions' = EmptyMap
  /\ mockPaidTimestamps' = EmptyMap
  /\ StoreCall(ReturnOf("clearAllSessions", "", NoDate, FALSE, 0))

CallShouldMockPaid(id, createdAt) ==
  /\ mockPaidTimestamps' = MarkersAfterShouldMockPaid(id, createdAt)
  /\ UNCHANGED sessions
  /\ StoreCall(ReturnOf("shouldMockPaid", id, createdAt,
                        shouldMockPaid(id, createdAt), 0))

\* cleaned++ for every deleted session
CallCleanupExpiredSessions ==
  /\ sessions' = MapRemove(sessions, CleanupVictims)
  /\ mockPaidTimestamps' = MapRemove(mockPaidTimestamps, CleanupVictims)
  /\ StoreCall(ReturnOf("cleanupExpiredSessions", "", NoDate, FALSE,
                        Cardinality(CleanupVictims)))

StoreNext ==
  \/ StoreTick
  \/ \E id \in StoreIds, sats \in SatsChoices :
       \E e \in ExpiryChoices(now) : CallCreateSession(id, sats, e)
  \/ \E id \in StoreIds, st \in Statuses, at \in PaidAtArgs :
       CallUpdateSessionStatus(id, st, at)
  \/ \E id \in StoreIds : CallDeleteSession(id)
  \/ CallClearAllSessions
  \/ \E id \in StoreIds, c \in CreatedAtArgs : CallShouldMockPaid(id, c)
  \/ CallCleanupExpiredSessions

StoreSpec == Init /\ [][StoreNext]_vars

\* --------------------------------------- the handler over a two-session store
\* FrameSpec: two checkouts were confirmed at time 0, each with the default
\* or an issuer-provided expiry; from there handleVerifyStatus is invoked
\* for either identifier while sessions are re-created, deleted and swept.

FrameProcs == 1..MaxFrameCalls

FrameInit ==
  /\ now = 0
  /\ \E e1, e2 \in ExpiryChoices(0), sats \in SatsChoices :
       sessions = createSession(createSession(EmptyMap, "c1", sats, e1),
                                "c2", sats, e2)
  /\ mockPaidTimestamps = EmptyMap
  /\ pc = [ p \in Procs |-> "idle" ]
  /\ checkoutId = [ p \in Procs |-> "" ]
  /\ session = [ p \in Procs |-> NoSession ]
  /\ paidAt = [ p \in Procs |-> NoDate ]
  /\ settled = [ id |-> "", result |-> NoResult ]
  /\ notified = [ i \in StoreIds |-> 0 ]
  /\ creates = 0
  /\ ret = NoReturn
  /\ calls = 0
  /\ response = NoResponse
  /\ polled = NoPolled
  /\ probe = NoProbe
  /\ invoice = NoInvoiceCall
  /\ checkout = NoCheckoutCall

FrameNext ==
  \/ Tick
  \/ CreateSession
  \/ DeleteSession
  \/ ClearAllSessions
  \/ CleanupExpiredSessions
  \/ \E p \in FrameProcs, id \in StoreIds : Invoke(p, id)
  \/ \E p \in FrameProcs, r \in AdapterResults, c \in BOOLEAN : PollReturn(p, r, c)
  \/ \E p \in FrameProcs, o \in NotifyOutcomes : NotifyReturn(p, o)

FrameSpec == FrameInit /\ [][FrameNext]_vars

\* --------------------------------------------------- the adapter on its own
\* AdapterSpec: checkInvoiceStatus is called again and again, each call
\* meeting one of the wire outcomes.
CheckInvoiceStatus(t) ==
  /\ response' = t
  /\ polled' = checkInvoiceStatus(t)
  /\ UNCHANGED << now, sessions, mockPaidTimestamps, ret, calls >>
  /\ UNCHANGED handlerFrame
  /\ UNCHANGED flowVars

AdapterNext == \E t \in WireOutcomes : CheckInvoiceStatus(t)

AdapterSpec == Init /\ [][AdapterNext]_vars

\* ------------------------------------------------- the discovery request
\* AddressSpec: fetchLnUrlPayParams is called with any address and runs up
\* to its first await: the address is resolved and, if that succeeds, the
\* GET of the discovery URL is issued.
othersFrame ==
  << now, sessions, mockPaidTimestamps, pc, checkoutId, session, paidAt, settled,
     notified, creates, ret, calls, response, polled >>

\* lines 112-122
FetchLnUrlPayParams(lnAddress) ==
  /\ LET urlResult == resolveLightningAddress(lnAddress)
     IN  probe' = Probe("fetchLnUrlPayParams", lnAddress, NoCallbackResponse, NoUrl,
                        IF urlResult.kind = "failure" THEN NoUrl ELSE urlResult.url,
                        urlResult)
  /\ UNCHANGED othersFrame
  /\ UNCHANGED << invoice, checkout >>

AddressNext == \E a \in Addresses : FetchLnUrlPayParams(a)

AddressSpec == Init /\ [][AddressNext]_vars

\* ------------------------------------------------- createInvoiceFromLnAddress
\* InvoiceSpec: one call of createInvoiceFromLnAddress, cut at its awaits,
\* while the clock advances.
InvoiceFrame ==
  /\ UNCHANGED othersFrame
  /\ UNCHANGED << probe, checkout >>

\* variant of CreateInvoiceFromLnAddress: the amount is validated before the
\* address
M_CreateInvoiceFromLnAddress(eurAmount, lnAddress) ==
  /\ invoice.pc = "idle"
  /\ LET sats == eurToSats(eurAmount)
         msats == satsToMsats(sats)
         urlResult == resolveLightningAddress(lnAddress)
         called == [ invoice EXCEPT !.eurAmount = eurAmount, !.lnAddress = lnAddress ]
     IN  IF eurAmount <= 0
         THEN invoice' = [ called EXCEPT !.pc = "done",
                !.result = InvoiceResult("failure", "invalid_amount", NoInvoiceData) ]
         ELSE IF lnAddress = << >>
         THEN invoice' = [ called EXCEPT !.pc = "done",
                !.result = InvoiceResult("failure", "missing_ln_address", NoInvoiceData) ]
         ELSE IF urlResult.kind = "failure"
         THEN invoice' = [ called EXCEPT !.pc = "done", !.sats = sats, !.msats = msats,
                !.result = InvoiceResult("failure", urlResult.code, NoInvoiceData) ]
         ELSE invoice' = [ called EXCEPT !.pc = "awaitParams", !.sats = sats,
                !.msats = msats,
                !.requests = << Request("discovery", urlResult.url) >> ]
  /\ InvoiceFrame

\* lines 271-295 and 112-122: the validations, the conversion, and
\* fetchLnUrlPayParams up to its fetch
CreateInvoiceFromLnAddress(eurAmount, lnAddress) ==
  /\ invoice.pc = "idle"
  /\ LET sats == eurToSats(eurAmount)
         msats == satsToMsats(sats)
         urlResult == resolveLightningAddress(lnAddress)
         called == [ invoice EXCEPT !.eurAmount = eurAmount, !.lnAddress = lnAddress ]
     IN  IF lnAddress = << >>
         THEN invoice' = [ called EXCEPT !.pc = "done",
                !.result = InvoiceResult("failure", "missing_ln_address", NoInvoiceData) ]
         ELSE IF eurAmount <= 0
         THEN invoice' = [ called EXCEPT !.pc = "done",
                !.result = InvoiceResult("failure", "invalid_amount", NoInvoiceData) ]
         ELSE IF urlResult.kind = "failure"
         THEN invoice' = [ called EXCEPT !.pc = "done", !.sats = sats, !.msats = msats,
                !.result = InvoiceResult("failure", urlResult.code, NoInvoiceData) ]
         ELSE invoice' = [ called EXCEPT !.pc = "awaitParams", !.sats = sats,
                !.msats = msats,
                !.requests = << Request("discovery", urlResult.url) >> ]
  /\ InvoiceFrame

\* lines 119-161, 296-303 and 167-189: the discovery request is answered;
\* on parameters, requestInvoice checks the range, parses the callback and
\* issues its fetch
ParamsReturn(a) ==
  /\ invoice.pc = "awaitParams"
  /\ LET got == [ invoice EXCEPT !.params = a ]
     IN  IF a.kind # "ok"
         THEN invoice' = [ got EXCEPT !.pc = "done",
                !.result = InvoiceResult("failure", ParamsFailureCode(a), NoInvoiceData) ]
         ELSE IF invoice.msats < a.minSendable \/ invoice.msats > a.maxSendable
         THEN invoice' = [ got EXCEPT !.pc = "done",
                !.result = InvoiceResult("failure", "amount_out_of_range", NoInvoiceData) ]
         ELSE IF ~a.callbackIsUrl
         THEN invoice' = [ got EXCEPT !.pc = "done",
                !.result = InvoiceResult("failure", "invoice_request_error", NoInvoiceData) ]
         ELSE invoice' = [ got EXCEPT !.pc = "awaitInvoice",
                !.requests = @ \o
                  << Request("invoice",
                       Url(a.callback.host, a.callback.path,
                           SearchParamsSet(a.callback.query, "amount", invoice.msats))) >> ]
  /\ InvoiceFrame

\* lines 191-222 and 309-329: the invoice request is answered; on an
\* invoice the verify URL is derived and the record returned
InvoiceReturn(a) ==
  /\ invoice.pc = "awaitInvoice"
  /\ LET got == [ invoice EXCEPT !.answer = a ]
     IN  IF a.kind # "ok"
         THEN invoice' = [ got EXCEPT !.pc = "done",
                !.result = InvoiceResult("failure", InvoiceFailureCode(a), NoInvoiceData) ]
         ELSE invoice' = [ got EXCEPT !.pc = "done",
                !.result = InvoiceResult("success", "",
                  InvoiceData(PrValue,
                              getVerifyUrl(a.response, invoice.params.callback,
                                           invoice.lnAddress),
                              toISOString(now + InvoiceExpiryMs),
                              invoice.sats, invoice.msats, a.response.paymentHash)) ]
  /\ InvoiceFrame

InvoiceNext ==
  \/ Tick
  \/ \E e \in EurAmounts, a \in InvoiceAddresses : CreateInvoiceFromLnAddress(e, a)
  \/ \E a \in ParamsAnswers : ParamsReturn(a)
  \/ \E a \in InvoiceAnswers : InvoiceReturn(a)

InvoiceSpec == Init /\ [][InvoiceNext]_vars

\* ------------------------------------------- confirmCheckout, createCheckout
\* CheckoutSpec: one call of confirmCheckout or of createCheckout in Bringin
\* mode, cut at its awaits, for an identifier that may or may not have a
\* session already, while the clock advances.
CheckoutFrame ==
  /\ UNCHANGED << now, mockPaidTimestamps >>
  /\ UNCHANGED handlerFrame
  /\ UNCHANGED storeCallVars
  /\ UNCHANGED adapterVars
  /\ UNCHANGED << probe, invoice >>

\* a failure inside the call: confirmCheckoutBringin lets the error go
\* (lines 90-133 have no try), createCheckout catches it (lines 284-291)
CheckoutFails(c) ==
  [ c EXCEPT !.pc = "done",
             !.result = IF c.fn = "createCheckout"
                        THEN CheckoutResult("failure", "checkout_creation_failed")
                        ELSE CheckoutResult("raised", "Error") ]

\* lines 58-66 and 90-92, or 195-224: the client is built and the first
\* request to the API is issued
CallCheckout(fn, id, clientThrows) ==
  /\ checkout.pc = "idle"
  /\ LET called == [ checkout EXCEPT !.fn = fn, !.id = id ]
     IN  checkout' = IF clientThrows THEN CheckoutFails(called)
                     ELSE [ called EXCEPT !.pc = "awaitCheckout" ]
  /\ UNCHANGED sessions
  /\ CheckoutFrame

\* lines 92-99, or 209-233: checkouts.confirm or checkouts.create settles.
\* A checkout that is not CONFIRMED is returned by createCheckout as it is;
\* otherwise the invoice is requested.
CheckoutReturn(outcome, amount) ==
  /\ checkout.pc = "awaitCheckout"
  /\ outcome = "unconfirmed" => checkout.fn = "createCheckout"
  /\ checkout' =
       CASE outcome = "rejects" -> CheckoutFails(checkout)
         [] outcome = "unconfirmed" ->
              [ checkout EXCEPT !.pc = "done", !.result = CheckoutResult("success", "") ]
         [] outcome = "confirmed" ->
              [ checkout EXCEPT !.pc = "awaitInvoice", !.confirmed = TRUE,
                                !.satsAmount = SatsAmount(amount) ]
  /\ UNCHANGED sessions
  /\ CheckoutFrame

\* lines 99-107, or 234-241: createInvoiceFromLnAddress resolves. A failure
\* is thrown; of an invoice the expiry date is parsed and the registration
\* is requested.
InvoiceCreated(r) ==
  /\ checkout.pc = "awaitInvoice"
  /\ checkout' =
       IF r.kind = "failure"
       THEN [ CheckoutFails(checkout) EXCEPT !.invoice = r ]
       ELSE [ checkout EXCEPT !.pc = "awaitRegister", !.invoice = r,
                !.expiryDate = IF Truthy(r.data.expiresAt)
                               THEN NewDateFromString(r.data.expiresAt)
                               ELSE now + DefaultExpiryMs ]
  /\ UNCHANGED sessions
  /\ CheckoutFrame

\* variant of RegisterReturn: the session is stored whether or not the
\* registration succeeded
M_RegisterReturn(resolves) ==
  /\ checkout.pc = "awaitRegister"
  /\ sessions' = createSession(sessions, checkout.id, checkout.invoice.data.sats,
                               checkout.expiryDate)
  /\ checkout' = IF resolves
                  THEN [ checkout EXCEPT !.pc = "done", !.registered = TRUE,
                           !.result = CheckoutResult("success", "") ]
                  ELSE CheckoutFails(checkout)
  /\ CheckoutFrame

\* lines 110-132, or 243-263: checkouts.registerInvoice settles; once it
\* has resolved the session is stored and the checkout returned
RegisterReturn(resolves) ==
  /\ checkout.pc = "awaitRegister"
  /\ IF resolves
     THEN /\ sessions' = createSession(sessions, checkout.id,
                                       checkout.invoice.data.sats, checkout.expiryDate)
          /\ checkout' = [ checkout EXCEPT !.pc = "done", !.registered = TRUE,
                             !.result = CheckoutResult("success", "") ]
     ELSE /\ sessions' = sessions
          /\ checkout' = CheckoutFails(checkout)
  /\ CheckoutFrame

CheckoutNext ==
  \/ Tick
  \/ CreateSession
  \/ \E fn \in { "confirmCheckout", "createCheckout" }, id \in Ids,
        clientThrows \in BOOLEAN : CallCheckout(fn, id, clientThrows)
  \/ \E outcome \in { "rejects", "unconfirmed", "confirmed" }, a \in InvoiceAmounts :
        CheckoutReturn(outcome, a)
  \/ \E r \in InvoiceOutcomes(checkout.satsAmount, now) : InvoiceCreated(r)
  \/ \E resolves \in BOOLEAN : RegisterReturn(resolves)

CheckoutSpec == Init /\ [][CheckoutNext]_vars
\* VerifyUrlSpec: getVerifyUrl is applied to any callback response, the
\* callback URL it answered and the address that was resolved. The address
\* has passed resolveLightningAddress by then (lines 295-297). One call is
\* made in a run.
ResolvedAddresses ==
  { a \in Addresses : resolveLightningAddress(a).kind = "success" }

GetVerifyUrl(callbackResponse, callback, lnAddress) ==
  /\ probe = NoProbe
  /\ probe' = Probe("getVerifyUrl", lnAddress, callbackResponse, callback,
                    getVerifyUrl(callbackResponse, callback, lnAddress),
                    Resolved("none", "", NoUrl))
  /\ UNCHANGED othersFrame
  /\ UNCHANGED << invoice, checkout >>

VerifyUrlNext ==
  /\ probe = NoProbe
  /\ \E r \in CallbackResponses, cb \in Callbacks, a \in ResolvedAddresses :
       GetVerifyUrl(r, cb, a)

VerifyUrlSpec == Init /\ [][VerifyUrlNext]_vars

\* ================================================================= claims

HasSession(id) == id \in DOMAIN sessions
StoredStatus(id) == sessions[id].status

\* invocation p, called with id, returns r in this step
Returns(p, id, r) ==
  /\ pc'[p] = "done"
  /\ settled' = [ id |-> id, result |-> r ]

\* invocation p leaves its await of the adapter / of the notification in
\* this step
Resumes(p) == pc[p] = "poll" /\ pc'[p] # "poll"
Finishes(p) == pc[p] = "notify" /\ pc'[p] # "notify"

\* the poll outcomes the handler treats as inconclusive, and those that say paid
Inconclusive == { r \in AdapterResults : r.error \/ r.status = "pending" }
SaysPaid == { r \in AdapterResults : ~r.error /\ r.status = "paid" }

\* the last step returned r to a caller of checkStatus(id)
Returned(id, r) == settled = [ id |-> id, result |-> r ]

\* C1: checkStatus on a session whose stored status is paid returns the paid
\* result built from the stored paidAt and sats, without polling the adapter,
\* without notifying and without changing the session map or the marker map.
C1_CachedPaidReturns ==
  [][ \A p \in Procs, id \in Ids :
        ( /\ Invoke(p, id)
          /\ HasSession(id)
          /\ StoredStatus(id) = "paid" )
        => /\ Returns(p, id, success("paid", toISOString(sessions[id].paidAt),
                                     sessions[id].sats))
           /\ notified' = notified
           /\ sessions' = sessions
           /\ mockPaidTimestamps' = mockPaidTimestamps ]_vars

\* C2: paid is terminal: no step of any checkStatus invocation, overlapping
\* ones included, takes a session whose status is paid to another status.
C2_PaidIsTerminal ==
  [][ CheckStatusStep =>
        \A id \in Ids :
          (HasSession(id) /\ StoredStatus(id) = "paid")
          => sessions'[id].status = "paid" ]_vars

\* C3: a checkStatus call made on a session whose status is expired never
\* moves it to paid or back to pending, whatever the poll returns.
C3_ExpiredIsTerminal ==
  [][ \A p \in Procs :
        /\ \A id \in Ids :
             (Invoke(p, id) /\ HasSession(id) /\ StoredStatus(id) = "expired")
             => sessions'[id].status = "expired"
        /\ \A r \in AdapterResults, c \in BOOLEAN :
             ( /\ PollReturn(p, r, c)
               /\ session[p].status = "expired"
               /\ HasSession(checkoutId[p])
               /\ StoredStatus(checkoutId[p]) = "expired" )
             => sessions'[checkoutId[p]].status = "expired" ]_vars

\* C4: paidAt is written at most once in a session's life, in the step that
\* sets status to paid; no checkStatus step overwrites a paidAt already set.
C4_PaidAtWrittenOnce ==
  [][ CheckStatusStep =>
        \A id \in Ids :
          HasSession(id) =>
            /\ sessions[id].paidAt # NoDate
                 => sessions'[id].paidAt = sessions[id].paidAt
            /\ sessions'[id].paidAt # sessions[id].paidAt
                 => (sessions[id].status # "paid" /\ sessions'[id].status = "paid") ]_vars

\* the paid branch a resumed invocation takes: the poll said paid, or it was
\* inconclusive and the mock condition holds
MockHolds(p) ==
  \/ checkoutId[p] \in DOMAIN mockPaidTimestamps
  \/ now - session[p].createdAt > MockDelayMs

TakesPaidBranch(p, r) ==
  IF r.error \/ r.status = "pending" THEN MockHolds(p) ELSE r.status = "paid"

\* C5: overlapping invocations for one identifier are not serialized: an
\* invocation that read pending before its await and resumes on the paid
\* branch issues the payment notification whatever the stored status has
\* become in the meantime, so a second notification is sent for a session
\* that another invocation has already marked paid.
C5_NotSerialized ==
  [][ \A p \in Procs :
        Resumes(p) =>
          \A r \in AdapterResults :
            (TakesPaidBranch(p, r) /\ PollReturn(p, r, FALSE))
            => /\ pc'[p] = "notify"
               /\ notified'[checkoutId[p]] = notified[checkoutId[p]] + 1 ]_vars

\* two invocations that both read the same pending session and both met the
\* mock condition have both issued the notification and are awaiting it
C5_Witness ==
  \E p, q \in Procs :
    /\ p # q
    /\ pc[p] = "notify" /\ pc[q] = "notify"
    /\ checkoutId[p] = checkoutId[q]
    /\ session[p] = session[q]
    /\ session[p].status = "pending"
    /\ HasSession(checkoutId[p])
    /\ sessions[checkoutId[p]].createdAt = session[p].createdAt
    /\ checkoutId[p] \in DOMAIN mockPaidTimestamps
    /\ notified[checkoutId[p]] = 2

\* C6: every invocation completes with success pending, success paid (with
\* paidAt and the amount), success expired or a structured failure; it never
\* raises.
C6_NeverRaises ==
  settled.id # "" =>
    \/ /\ settled.result.kind = "success"
       /\ settled.result.status \in {"pending", "expired"}
    \/ /\ settled.result.kind = "success"
       /\ settled.result.status = "paid"
       /\ settled.result.paidAt.kind = "iso"
    \/ /\ settled.result.kind = "failure"
       /\ settled.result.code # ""

\* C7: checkStatus for an identifier with no session returns the failure
\* session_not_found without polling, without creating a session or a marker
\* and without notifying.
C7_SessionNotFound ==
  [][ \A p \in Procs, id \in Ids :
        (Invoke(p, id) /\ ~HasSession(id))
        => /\ Returns(p, id, failure("session_not_found"))
           /\ sessions' = sessions
           /\ mockPaidTimestamps' = mockPaidTimestamps
           /\ notified' = notified ]_vars

\* a call for an identifier whose session has been deleted has just failed
\* with session_not_found
C7_Witness ==
  \E id \in Ids :
    /\ Returned(id, failure("session_not_found"))
    /\ ~HasSession(id)
    /\ creates > 0

\* C8: for a session that is not paid and whose expiresAt is strictly earlier
\* than now (whatever its stored status), checkStatus stores expired and
\* returns expired without polling, consulting the mock fallback or
\* notifying; when expiresAt is not earlier than now it does not expire the
\* session but polls.
C8_LocalExpiry ==
  [][ \A p \in Procs, id \in Ids :
        (Invoke(p, id) /\ HasSession(id) /\ StoredStatus(id) # "paid")
        => IF sessions[id].expiresAt < now
           THEN /\ Returns(p, id, success("expired", NoString, 0))
                /\ sessions'[id].status = "expired"
                /\ sessions'[id].paidAt = sessions[id].paidAt
                /\ mockPaidTimestamps' = mockPaidTimestamps
                /\ notified' = notified
           ELSE /\ pc'[p] = "poll"
                /\ sessions' = sessions ]_vars

\* a call on a session past its default expiry has just returned expired and
\* the store shows expired, with no notification and no marker
C8_Witness ==
  \E id \in Ids :
    /\ Returned(id, success("expired", NoString, 0))
    /\ HasSession(id)
    /\ sessions[id].status = "expired"
    /\ sessions[id].expiresAt < now
    /\ sessions[id].expiresAt = sessions[id].createdAt + DefaultExpiryMs
    /\ sessions[id].lastCheckedAt = now
    /\ notified[id] = 0
    /\ id \notin DOMAIN mockPaidTimestamps

\* C9: when the poll of an unexpired pending session fails outright or
\* returns pending: if the mock condition does not hold the call returns
\* pending and changes nothing; if it holds the stored status becomes paid
\* with paidAt = now, the notification is attempted and the call returns
\* paid with that paidAt.  A hard failure is handled exactly like pending.
C9_InconclusivePoll ==
  [][ /\ \A p \in Procs :
           Resumes(p) =>
             \A r \in Inconclusive, c \in BOOLEAN :
               PollReturn(p, r, c)
               => IF MockHolds(p)
                  THEN /\ HasSession(checkoutId[p])
                            => /\ sessions'[checkoutId[p]].status = "paid"
                               /\ sessions'[checkoutId[p]].paidAt = now
                       /\ IF c
                          THEN /\ Returns(p, checkoutId[p],
                                          success("paid", toISOString(now),
                                                  session[p].sats))
                               /\ notified' = notified
                          ELSE /\ pc'[p] = "notify"
                               /\ paidAt'[p] = now
                               /\ notified'[checkoutId[p]] = notified[checkoutId[p]] + 1
                  ELSE /\ Returns(p, checkoutId[p], success("pending", NoString, 0))
                       /\ sessions' = sessions
                       /\ notified' = notified
      /\ \A p \in Procs :
           (Finishes(p) /\ paidAt[p] # InvalidDate) =>
             \A o \in NotifyOutcomes :
               NotifyReturn(p, o)
               => /\ Returns(p, checkoutId[p],
                             success("paid", toISOString(paidAt[p]), session[p].sats))
                  /\ sessions' = sessions ]_vars

\* a call whose poll was inconclusive more than 12 s after creation has just
\* returned paid after its notification, and the store shows paid with the
\* paidAt it returned
C9_Witness ==
  \E id \in Ids :
    /\ HasSession(id)
    /\ id \in DOMAIN mockPaidTimestamps
    /\ sessions[id].status = "paid"
    /\ Returned(id, success("paid", toISOString(sessions[id].paidAt), sessions[id].sats))
    /\ sessions[id].paidAt = mockPaidTimestamps[id]
    /\ sessions[id].paidAt - sessions[id].createdAt > MockDelayMs
    /\ notified[id] = 1

\* C10: when the poll of an unexpired pending session returns paid, the
\* stored status becomes paid with paidAt = the provider's timestamp if one
\* was supplied and now otherwise, the notification is attempted once, and
\* the call returns paid with that paidAt and the session's sats.
C10_PaidPoll ==
  [][ /\ \A p \in Procs, r \in SaysPaid, c \in BOOLEAN :
           PollReturn(p, r, c)
           => /\ HasSession(checkoutId[p])
                   => /\ sessions'[checkoutId[p]].status = "paid"
                      /\ sessions'[checkoutId[p]].paidAt # InvalidDate
                      /\ r.paidAt.kind = "iso"
                           => sessions'[checkoutId[p]].paidAt = r.paidAt.ms
                      /\ r.paidAt.kind \in {"absent", "empty"}
                           => sessions'[checkoutId[p]].paidAt = now
              /\ IF c
                 THEN /\ pc'[p] = "done"
                      /\ settled'.id = checkoutId[p]
                      /\ settled'.result.kind = "success"
                      /\ settled'.result.status = "paid"
                      /\ settled'.result.sats = session[p].sats
                      /\ notified' = notified
                 ELSE /\ pc'[p] = "notify"
                      /\ notified'[checkoutId[p]] = notified[checkoutId[p]] + 1
      /\ \A p \in Procs, o \in NotifyOutcomes :
           NotifyReturn(p, o)
           => /\ Returns(p, checkoutId[p],
                         success("paid", toISOString(paidAt[p]), session[p].sats))
              /\ paidAt[p] # InvalidDate
              /\ notified' = notified ]_vars

\* the poll outcomes that say expired
SaysExpired == { r \in AdapterResults : ~r.error /\ r.status = "expired" }

\* C11: when the poll of an unexpired pending session returns expired, the
\* call stores expired (stamping lastCheckedAt), sends no notification,
\* leaves the stored paidAt and the marker map unchanged and returns expired.
C11_PollExpired ==
  [][ \A p \in Procs :
        Resumes(p) =>
          \A r \in SaysExpired, c \in BOOLEAN :
            PollReturn(p, r, c)
            => /\ Returns(p, checkoutId[p], success("expired", NoString, 0))
               /\ notified' = notified
               /\ mockPaidTimestamps' = mockPaidTimestamps
               /\ DOMAIN sessions' = DOMAIN sessions
               /\ HasSession(checkoutId[p])
                    => /\ sessions'[checkoutId[p]].status = "expired"
                       /\ sessions'[checkoutId[p]].paidAt = sessions[checkoutId[p]].paidAt
                       /\ sessions'[checkoutId[p]].lastCheckedAt = now ]_vars

\* a call on a pending session that is not past its expiry has just returned
\* expired from the poll, and the store shows expired with no paidAt, no
\* marker and no notification
C11_Witness ==
  \E id \in Ids :
    /\ Returned(id, success("expired", NoString, 0))
    /\ HasSession(id)
    /\ sessions[id].status = "expired"
    /\ now <= sessions[id].expiresAt
    /\ sessions[id].lastCheckedAt = now
    /\ sessions[id].paidAt = NoDate
    /\ notified[id] = 0
    /\ id \notin DOMAIN mockPaidTimestamps

\* the step returns the paid result to the caller of invocation p
ReturnsPaid(p) ==
  /\ pc'[p] = "done"
  /\ settled'.id = checkoutId[p]
  /\ settled'.result.kind = "success"
  /\ settled'.result.status = "paid"
  /\ settled'.result.sats = session[p].sats

\* C12: a failure of the notification (the client constructor or
\* paymentReceived throwing) never changes the outcome: the stored status is
\* paid before the notification is attempted, the failure leaves the store
\* as it is and sends nothing more, the call still returns paid, and a later
\* call on the paid session does not notify again.
C12_NotifyFailureSwallowed ==
  [][ /\ \A p \in Procs :
           Resumes(p) =>
             \A r \in AdapterResults, c \in BOOLEAN :
               (TakesPaidBranch(p, r) /\ PollReturn(p, r, c))
               => /\ HasSession(checkoutId[p])
                       => sessions'[checkoutId[p]].status = "paid"
                  /\ c => (ReturnsPaid(p) /\ notified' = notified)
      /\ \A p \in Procs :
           Finishes(p) =>
             ( NotifyReturn(p, "rejected")
               => /\ ReturnsPaid(p)
                  /\ sessions' = sessions
                  /\ notified' = notified )
      /\ \A p \in Procs, id \in Ids :
           (Invoke(p, id) /\ HasSession(id) /\ StoredStatus(id) = "paid")
           => notified' = notified ]_vars

\* ------------------------------------------------- claims on the store API

HasMarker(id) == id \in DOMAIN mockPaidTimestamps

\* C13 as stated: without a marker, shouldMockPaid returns false when less
\* than 12,000 ms have elapsed since createdAt and true when 12,000 ms or
\* more have, in particular at exactly 12,000 ms.
C13_MockDelayInclusive ==
  [][ \A id \in StoreIds, c \in CreatedAtArgs :
        (CallShouldMockPaid(id, c) /\ ~HasMarker(id))
        => ret'.flag = (now - c >= MockDelayMs) ]_vars

\* C13 as amended: without a marker, shouldMockPaid returns false when
\* 12,000 ms or less have elapsed since createdAt (at exactly 12,000 ms
\* too) and true when more than 12,000 ms have.
C13_MockDelayStrict ==
  [][ \A id \in StoreIds, c \in CreatedAtArgs :
        (CallShouldMockPaid(id, c) /\ ~HasMarker(id))
        => /\ (now - c <= MockDelayMs) => ret'.flag = FALSE
           /\ (now - c > MockDelayMs) => ret'.flag = TRUE ]_vars

\* shouldMockPaid has just returned false exactly 12,000 ms after createdAt
C13_Witness ==
  /\ ret.op = "shouldMockPaid"
  /\ now - ret.at = MockDelayMs
  /\ ret.flag = FALSE
  /\ ~HasMarker(ret.id)

\* C14: shouldMockPaid is sticky.  A call that returns false records
\* nothing; the first call that returns true for an identifier records its
\* marker (the current time) and later ones leave it as it is; while the
\* marker exists every call for the identifier returns true whatever
\* createdAt and the clock are; and a marker disappears only through
\* deleteSession, clearAllSessions or the cleanup sweep.
C14_Sticky ==
  [][ /\ \A id \in StoreIds, c \in CreatedAtArgs :
           CallShouldMockPaid(id, c)
           => /\ ~ret'.flag => mockPaidTimestamps' = mockPaidTimestamps
              /\ (ret'.flag /\ HasMarker(id))
                   => mockPaidTimestamps' = mockPaidTimestamps
              /\ (ret'.flag /\ ~HasMarker(id))
                   => /\ DOMAIN mockPaidTimestamps' = DOMAIN mockPaidTimestamps \cup {id}
                      /\ mockPaidTimestamps'[id] = now
                      /\ \A j \in DOMAIN mockPaidTimestamps :
                           mockPaidTimestamps'[j] = mockPaidTimestamps[j]
              /\ HasMarker(id) => ret'.flag
              /\ ret'.flag => id \in DOMAIN mockPaidTimestamps'
      /\ \A id \in StoreIds :
           HasMarker(id)
           => IF id \in DOMAIN mockPaidTimestamps'
              THEN mockPaidTimestamps'[id] = mockPaidTimestamps[id]
              ELSE \/ CallDeleteSession(id)
                   \/ CallClearAllSessions
                   \/ (CallCleanupExpiredSessions /\ id \in CleanupVictims) ]_vars

\* shouldMockPaid has just returned true for a createdAt less than 12 s ago,
\* on the strength of a marker recorded by an earlier call
C14_Witness ==
  /\ ret.op = "shouldMockPaid"
  /\ ret.flag = TRUE
  /\ now - ret.at < MockDelayMs
  /\ HasMarker(ret.id)
  /\ mockPaidTimestamps[ret.id] < now

\* the sessions whose status is expired and whose expiry lies more than one
\* hour before now
ExpiredOverAnHour ==
  { i \in DOMAIN sessions :
      sessions[i].status = "expired" /\ sessions[i].expiresAt + CleanupAgeMs < now }

C16_CreateSession ==
  [][ \A id \in StoreIds, sats \in SatsChoices :
        \A e \in ExpiryChoices(now) :
          CallCreateSession(id, sats, e)
          => /\ id \in DOMAIN sessions'
             /\ sessions'[id].checkoutId = id
             /\ sessions'[id].sats = sats
             /\ sessions'[id].expiresAt = e
             /\ sessions'[id].status = "pending"
             /\ sessions'[id].createdAt = now
             /\ sessions'[id].paidAt = NoDate
             /\ sessions'[id].lastCheckedAt = NoDate
             /\ DOMAIN sessions' = DOMAIN sessions \cup {id}
             /\ \A j \in DOMAIN sessions \ {id} : sessions'[j] = sessions[j] ]_vars

\* createSession has just been called, at a later time, for an identifier
\* while the session of the other identifier is paid with a paidAt: the new
\* session is pending and fresh, the other one is as it was
C16_Witness ==
  \E id, j \in StoreIds :
    /\ id # j
    /\ ret.op = "createSession" /\ ret.id = id
    /\ id \in DOMAIN sessions /\ j \in DOMAIN sessions
    /\ sessions[id].status = "pending"
    /\ sessions[id].createdAt = now
    /\ sessions[id].paidAt = NoDate
    /\ sessions[j].status = "paid"
    /\ sessions[j].paidAt # NoDate
    /\ sessions[j].createdAt < now

\* C17: updateSessionStatus leaves the store unchanged when the identifier
\* has no session (none is created); otherwise it sets that session's
\* status and lastCheckedAt, sets paidAt only when the argument is supplied,
\* never clears a paidAt, and changes no other field and no other session.
C17_UpdateSessionStatus ==
  [][ \A id \in StoreIds, st \in Statuses, at \in PaidAtArgs :
        CallUpdateSessionStatus(id, st, at)
        => /\ mockPaidTimestamps' = mockPaidTimestamps
           /\ IF id \notin DOMAIN sessions
              THEN sessions' = sessions
              ELSE /\ DOMAIN sessions' = DOMAIN sessions
                   /\ sessions'[id].status = st
                   /\ sessions'[id].lastCheckedAt = now
                   /\ sessions'[id].paidAt =
                        (IF at # NoDate THEN at ELSE sessions[id].paidAt)
                   /\ sessions[id].paidAt # NoDate => sessions'[id].paidAt # NoDate
                   /\ sessions'[id].checkoutId = sessions[id].checkoutId
                   /\ sessions'[id].sats = sessions[id].sats
                   /\ sessions'[id].createdAt = sessions[id].createdAt
                   /\ sessions'[id].expiresAt = sessions[id].expiresAt
                   /\ \A j \in DOMAIN sessions \ {id} : sessions'[j] = sessions[j] ]_vars

\* updateSessionStatus has just been called without a paidAt on a session
\* that had one: the status and lastCheckedAt are new, the paidAt is kept
C17_Witness ==
  /\ ret.op = "updateSessionStatus"
  /\ ret.at = NoDate
  /\ ret.id \in DOMAIN sessions
  /\ sessions[ret.id].status = "expired"
  /\ sessions[ret.id].paidAt = 5000
  /\ sessions[ret.id].lastCheckedAt = now
  /\ sessions[ret.id].createdAt < now

\* the last call removed whatever the store held for id
JustRemoved(id) ==
  \/ ret.op = "deleteSession" /\ ret.id = id
  \/ ret.op = "clearAllSessions"

\* C18: deleteSession(id) removes the session and the marker of id and
\* nothing else; clearAllSessions empties both maps.  After either,
\* getSession(id) finds nothing and shouldMockPaid(id, createdAt) with less
\* than 12 s elapsed returns false again.
C18_DeleteAndClear ==
  [][ /\ \A id \in StoreIds :
           CallDeleteSession(id)
           => /\ DOMAIN sessions' = DOMAIN sessions \ {id}
              /\ \A j \in DOMAIN sessions' : sessions'[j] = sessions[j]
              /\ DOMAIN mockPaidTimestamps' = DOMAIN mockPaidTimestamps \ {id}
              /\ \A j \in DOMAIN mockPaidTimestamps' :
                   mockPaidTimestamps'[j] = mockPaidTimestamps[j]
      /\ CallClearAllSessions
           => /\ DOMAIN sessions' = {}
              /\ DOMAIN mockPaidTimestamps' = {}
      /\ \A id \in StoreIds :
           JustRemoved(id)
           => /\ getSession(id) = NoSession
              /\ \A c \in CreatedAtArgs :
                   (CallShouldMockPaid(id, c) /\ now - c < MockDelayMs)
                   => ret'.flag = FALSE ]_vars

\* deleteSession has just been called for one identifier: it has no session
\* and no marker, and the other identifier still has both
C18_Witness ==
  \E id, j \in StoreIds :
    /\ id # j
    /\ ret.op = "deleteSession" /\ ret.id = id
    /\ getSession(id) = NoSession
    /\ ~HasMarker(id)
    /\ getSession(j) # NoSession
    /\ HasMarker(j)

\* ------------------------------------------ claims on the two-session store

\* the fields of a session fixed at creation
FixedFields(s) ==
  << s.checkoutId, s.sats, s.bolt11, s.verifyUrl, s.createdAt, s.expiresAt >>

\* C19: while a session stays in the store without being re-created, no
\* step (checkStatus in any branch with its updateSessionStatus and
\* shouldMockPaid calls, the cleanup sweep, the clock) changes its
\* expiresAt, createdAt, amount, invoice string or verify URL; a step of
\* checkStatus(id) changes nothing but status, paidAt and lastCheckedAt of
\* the session of id, and neither adds nor removes nor changes the session
\* of another identifier.
C19_FixedFields ==
  [][ /\ \A id \in StoreIds :
           (id \in DOMAIN sessions /\ id \in DOMAIN sessions' /\ creates' = creates)
           => FixedFields(sessions'[id]) = FixedFields(sessions[id])
      /\ \A p \in FrameProcs, id \in StoreIds :
           ( \/ Invoke(p, id)
             \/ (Resumes(p) /\ checkoutId[p] = id)
             \/ (Finishes(p) /\ checkoutId[p] = id) )
           => /\ DOMAIN sessions' = DOMAIN sessions
              /\ \A j \in DOMAIN sessions \ {id} : sessions'[j] = sessions[j] ]_vars

\* a checkStatus call for one identifier has just returned paid some time
\* after creation: its session is paid, stamped and still has the fields it
\* was created with, and the other identifier's session is untouched
C19_Witness ==
  \E id, j \in StoreIds :
    /\ id # j
    /\ settled.id = id
    /\ settled.result.kind = "success" /\ settled.result.status = "paid"
    /\ id \in DOMAIN sessions /\ j \in DOMAIN sessions
    /\ sessions[id].status = "paid"
    /\ sessions[id].paidAt # NoDate
    /\ sessions[id].lastCheckedAt = now
    /\ now > 0
    /\ FixedFields(sessions[id]) =
         << id, 1000, Bolt11Of(id), VerifyUrlOf(id), 0, DefaultExpiryMs >>
    /\ sessions[j].status = "pending"
    /\ sessions[j].lastCheckedAt = NoDate
    /\ sessions[j].createdAt = 0

\* ----------------------------------------------------- claims on the adapter

\* the last verify request got an HTTP response that is not a success and
\* not one of the two statuses taken as "unreachable"
HardHttpFailure ==
  /\ response.net = "responds"
  /\ ~HttpOk(response.http)
  /\ response.http \notin {404, 503}

SuccessPending == PollResult("success", "", "pending", NoString)

\* what C20 and its amendment share: 404 and 503 give success pending, a
\* network or parse exception gives success pending, and the call never
\* raises
SoftOutcomes ==
  /\ (response.net = "responds" /\ response.http \in {404, 503})
       => polled = SuccessPending
  /\ response.net = "rejects" => polled = SuccessPending
  /\ (response.net = "responds" /\ HttpOk(response.http) /\ response.body # "object")
       => polled = SuccessPending
  /\ polled.kind # "raised"

\* C20 as stated: 404 or 503 yields success pending, any other non-success
\* HTTP status yields a failure with code request_failed, a network or
\* parse exception yields success pending, and the call never raises.
C20_RequestFailed ==
  /\ SoftOutcomes
  /\ HardHttpFailure => (polled.kind = "failure" /\ polled.code = "request_failed")

\* C20 as amended: as stated, except that the failure for any other
\* non-success HTTP status carries the code verify_request_failed.
C20_VerifyRequestFailed ==
  /\ SoftOutcomes
  /\ HardHttpFailure
       => (polled.kind = "failure" /\ polled.code = "verify_request_failed")

\* a verify request answered with HTTP 500 has just been turned into the
\* failure verify_request_failed
C20_Witness ==
  /\ response.net = "responds"
  /\ response.http = 500
  /\ polled = PollResult("failure", "verify_request_failed", "", NoString)

\* the last verify request got a 2xx response whose body is a JSON object
ParsedObject ==
  /\ response.net = "responds"
  /\ HttpOk(response.http)
  /\ response.body = "object"

\* C21: on a successful verify response the status is paid if settled is
\* true, paid is true or status is "paid"; otherwise expired if expired is
\* true or status is "expired"; otherwise pending, also when no recognised
\* field is present; for every combination of the five fields.
C21_StatusPrecedence ==
  ParsedObject =>
    /\ polled.kind = "success"
    /\ ( \/ response.settled = "true"
          \/ response.paid = "true"
          \/ response.status = "paid" ) => polled.status = "paid"
    /\ ( /\ response.settled # "true"
          /\ response.paid # "true"
          /\ response.status # "paid"
          /\ (response.expired = "true" \/ response.status = "expired") )
         => polled.status = "expired"
    /\ ( /\ response.settled # "true"
          /\ response.paid # "true"
          /\ response.expired # "true"
          /\ response.status \notin {"paid", "expired"} )
         => polled.status = "pending"

\* a body that says settled, expired and pending at once, with the status
\* string expired, has just been read as paid
C21_Witness ==
  /\ ParsedObject
  /\ response.settled = "true"
  /\ response.expired = "true"
  /\ response.pending = "true"
  /\ response.status = "expired"
  /\ polled.kind = "success"
  /\ polled.status = "paid"

\* -------------------------------------------- claims on addresses and URLs

\* the number of separators in an address
CountAt(a) == Cardinality({ i \in 1..Len(a) : a[i] = "@" })

\* user@domain: one separator, with something on either side of it
WellFormed(a) == CountAt(a) = 1 /\ a[1] # "@" /\ a[Len(a)] # "@"

UserOf(a) == SubSeq(a, 1, (CHOOSE i \in 1..Len(a) : a[i] = "@") - 1)
DomainOf(a) == SubSeq(a, (CHOOSE i \in 1..Len(a) : a[i] = "@") + 1, Len(a))

\* what C24 and its amendment share: a well-formed address resolves to the
\* discovery URL made of its domain and user, which is then requested; a
\* malformed one fails and nothing is requested
ResolvesWellFormed ==
  probe.fn = "fetchLnUrlPayParams"
  => IF WellFormed(probe.address)
     THEN /\ probe.result.kind = "success"
          /\ probe.result.url =
               Url(DomainOf(probe.address),
                   << ".well-known", "lnurlp", UserOf(probe.address) >>, << >>)
          /\ probe.url = probe.result.url
     ELSE /\ probe.result.kind = "failure"
          /\ probe.url = NoUrl

\* C24 as stated: resolveAddress succeeds exactly for the addresses that
\* split on @ into two non-empty parts, giving the discovery URL of that
\* domain and user; every malformed address (no @, several @, empty user,
\* empty domain) fails with code invalid_address and nothing is requested.
C24_InvalidAddress ==
  /\ ResolvesWellFormed
  /\ (probe.fn = "fetchLnUrlPayParams" /\ ~WellFormed(probe.address))
       => probe.result.code = "invalid_address"

\* C24 as amended: as stated, except that the failure carries the code
\* invalid_ln_address.
C24_InvalidLnAddress ==
  /\ ResolvesWellFormed
  /\ (probe.fn = "fetchLnUrlPayParams" /\ ~WellFormed(probe.address))
       => probe.result.code = "invalid_ln_address"

\* an address with an empty domain has just been rejected without a request
C24_Witness ==
  /\ probe.fn = "fetchLnUrlPayParams"
  /\ probe.address = << "u", "d", "@" >>
  /\ probe.result = Resolved("failure", "invalid_ln_address", NoUrl)
  /\ probe.url = NoUrl

\* the path of the callback with the first /callback turned into /verify,
\* said position by position
Rewritten(path, to) ==
  /\ Len(to) = Len(path)
  /\ \A i \in 1..Len(path) :
       IF path[i][1] = "callback" /\ \A j \in 1..(i - 1) : path[j][1] # "callback"
       THEN to[i] = << "verify" >> \o Tail(path[i])
       ELSE to[i] = path[i]

\* the parameters of a query other than k1, in order
Others(query) == SelectSeq(query, LAMBDA prm : prm[1] # "k1")

StepsOf(f) == [ i \in 1..Len(f.requests) |-> f.requests[i].step ]

Failed(f, code, steps) ==
  /\ f.result = InvoiceResult("failure", code, NoInvoiceData)
  /\ StepsOf(f) = steps

\* what C22 and its amendment share, of a call f that returns at instant t;
\* missing is the code of the failure for a missing address
InvoiceContract(f, t, missing) ==
  IF f.lnAddress = << >> THEN Failed(f, missing, << >>)
  ELSE IF f.eurAmount <= 0 THEN Failed(f, "invalid_amount", << >>)
  ELSE IF ~WellFormed(f.lnAddress)
  THEN /\ f.result.kind = "failure"
       /\ f.result.code \notin { missing, "invalid_amount" }
       /\ StepsOf(f) = << >>
  ELSE IF f.params.kind # "ok"
  THEN Failed(f, ParamsFailureCode(f.params), << "discovery" >>)
  ELSE IF \/ f.msats < f.params.minSendable
          \/ f.msats > f.params.maxSendable
          \/ ~f.params.callbackIsUrl
  THEN /\ f.result.kind = "failure"
       /\ StepsOf(f) = << "discovery" >>
  ELSE IF f.answer.kind # "ok"
  THEN Failed(f, InvoiceFailureCode(f.answer), << "discovery", "invoice" >>)
  ELSE /\ f.result.kind = "success"
       /\ StepsOf(f) = << "discovery", "invoice" >>
       /\ f.result.data.sats * 10 \in (f.eurAmount - 5)..(f.eurAmount + 5)
       /\ f.result.data.msats = 1000 * f.result.data.sats
       /\ f.result.data.bolt11 = PrValue
       /\ f.result.data.verifyUrl =
            getVerifyUrl(f.answer.response, f.params.callback, f.lnAddress)
       /\ f.result.data.paymentHash = f.answer.response.paymentHash
       /\ f.result.data.expiresAt = [ kind |-> "iso", ms |-> t + 900000 ]

InvoiceCallReturns == invoice.pc # "done" /\ invoice'.pc = "done"

CheckoutStep == checkout' # checkout

\* C23: a step of confirmCheckout or createCheckout writes to the store only
\* when the checkout has been confirmed, the invoice issued and the
\* registration has just resolved, and then it stores the pending session of
\* that checkout; when the invoice or the registration fails no step of the
\* call has touched the store, and createCheckout returns the failure
\* checkout_creation_failed instead of throwing.
C23_SessionAfterRegistration ==
  [][CheckoutStep =>
       /\ sessions' # sessions
            => /\ checkout.confirmed
               /\ checkout.invoice.kind = "success"
               /\ ~checkout.registered /\ checkout'.registered
               /\ checkout'.result.kind = "success"
               /\ DOMAIN sessions' = DOMAIN sessions \cup { checkout.id }
               /\ \A i \in DOMAIN sessions : i # checkout.id => sessions'[i] = sessions[i]
               /\ sessions'[checkout.id].status = "pending"
               /\ sessions'[checkout.id].createdAt = now
       /\ (checkout'.pc = "done" /\ ~checkout'.registered)
            => /\ sessions' = sessions
               /\ checkout'.fn = "createCheckout"
                    => checkout'.result.kind \in { "success", "failure" }
               /\ (checkout'.fn = "createCheckout" /\ checkout'.confirmed)
                    => checkout'.result
                         = CheckoutResult("failure", "checkout_creation_failed")
       /\ checkout'.registered => checkout.pc = "awaitRegister"
       /\ checkout'.pc = "awaitRegister" => checkout'.invoice.kind = "success"
       /\ checkout'.pc = "awaitInvoice" => checkout'.confirmed]_vars

\* createCheckout has failed on the registration of an issued invoice and
\* the session its identifier had from an earlier instant is still there
C23_Witness ==
  /\ checkout.pc = "done"
  /\ checkout.fn = "createCheckout"
  /\ checkout.invoice.kind = "success"
  /\ ~checkout.registered
  /\ checkout.result = CheckoutResult("failure", "checkout_creation_failed")
  /\ checkout.id \in DOMAIN sessions
  /\ sessions[checkout.id].createdAt < now

\* ------------------------------------------------ claims on notifications

\* C26: when the invocations for an identifier do not overlap and its
\* session is neither deleted nor created again, at most one payment
\* notification is sent for it: while a notification is awaited the stored
\* status is already paid, and once it is paid no later invocation notifies.
C26_AtMostOneNotification ==
  /\ \A id \in Ids : notified[id] <= 1
  /\ \A p \in Procs :
       pc[p] = "notify"
       => /\ sessions[checkoutId[p]].status = "paid"
          /\ notified[checkoutId[p]] = 1
  /\ \A id \in Ids : notified[id] = 1 => sessions[id].status = "paid"

\* every invocation has returned, the last one with the paid result, and one
\* notification has been sent
C26_Witness ==
  /\ \A p \in Procs : pc[p] = "done"
  /\ settled.id = "c1"
  /\ settled.result.kind = "success"
  /\ settled.result.status = "paid"
  /\ sessions["c1"].status = "paid"
  /\ notified["c1"] = 1

\* ------------------------------------------------ claims on the two maps

\* C27: a stored session has a paidAt exactly when its status is paid: no
\* paid session lacks one, and no pending or expired session carries one.
C27_PaidAtIffPaid ==
  \A id \in DOMAIN sessions :
    sessions[id].paidAt # NoDate <=> sessions[id].status = "paid"

\* C28: every identifier that has a mock marker has a session in the store.
C28_MarkersHaveSessions ==
  DOMAIN mockPaidTimestamps \subseteq DOMAIN sessions

\* C30: creating a session again resets the mock fallback: when the
\* identifier of a session has a marker from an earlier mock payment, a call
\* for the session as it is stored now, resuming from an inconclusive poll
\* less than 12 seconds after the session was created, returns pending and
\* sends no notification.
C30_RecreationResetsMock ==
  [][ \A p \in Procs, r \in Inconclusive, c \in BOOLEAN :
        ( /\ PollReturn(p, r, c)
          /\ HasSession(checkoutId[p])
          /\ sessions[checkoutId[p]].status = "pending"
          /\ sessions[checkoutId[p]].createdAt = session[p].createdAt
          /\ now - session[p].createdAt < MockDelayMs
          /\ checkoutId[p] \in DOMAIN mockPaidTimestamps )
        => /\ Returns(p, checkoutId[p], success("pending", NoString, 0))
           /\ notified' = notified ]_vars

\* ------------------------------------------------- claims on the poll loop

\* the instant after which the clock of the model does not advance; every
\* session has expired by then
LastInstant == CHOOSE t \in Instants : \A u \in Instants : u <= t

\* the last step returned a terminal status / pending to a caller of
\* checkStatus(id)
TerminalReturned(id) ==
  /\ settled.id = id
  /\ settled.result.kind = "success"
  /\ settled.result.status \in { "paid", "expired" }

PendingReturned(id) ==
  /\ settled.id = id
  /\ settled.result.kind = "success"
  /\ settled.result.status = "pending"

\* an invocation for id has returned after the clock reached its last instant
ReturnedLate(id) == settled.id = id /\ now = LastInstant

\* C29: for a session that is created and not deleted, a poll loop that goes
\* on while the clock advances (so that an invocation returns after the last
\* instant) has some invocation return paid or expired, and once an
\* invocation has returned paid or expired none returns pending again.
C29_PollLoop ==
  \A id \in Ids :
    /\ <>ReturnedLate(id) => <>TerminalReturned(id)
    /\ [](TerminalReturned(id) => [](~PendingReturned(id)))

====
